---------------------------- MODULE Spec2Model ----------------------------
(***************************************************************************)
(* A model of src/cpu/cpu_x86.c, the x86 CPU driver: the CPUID data        *)
(* algebra, the catalog loader (vendors, features, models), the model      *)
(* comparator and the compute pipeline (x86Compute).                       *)
(*                                                                         *)
(* A 32-bit register is the set of the positions of its set bits, so that  *)
(* |, & and &~ are union, intersection and difference.  A struct           *)
(* cpuX86Data is a record of its two arrays, basic and extended, as        *)
(* sequences (C index i is TLA+ index i + 1).  The singly linked lists of  *)
(* the catalog are sequences whose first element is the list head.         *)
(* Allocation failure is not modelled.                                     *)
(***************************************************************************)
EXTENDS Integers, Sequences, FiniteSets, TLC

VARIABLES
    map,        \* SpecLoad: struct x86_map being loaded
    last,       \* SpecLoad: the last callback: its element and its outcome
    model1,     \* SpecCompare: first argument of x86ModelCompare
    model2,     \* SpecCompare: second argument of x86ModelCompare
    result,     \* SpecCompare: what x86ModelCompare returned ("none" before)
    host,       \* SpecCompute: the host virCPUDef
    cpu,        \* SpecCompute: the virCPUDef compared with the host
    pc,         \* SpecCompute: "start", "compared" (x86Compare) or "guestdata" (x86GuestData)
    ret,        \* SpecCompute: the virCPUCompareResult returned
    message,    \* SpecCompute: which message x86Compute reported
    guest,      \* SpecCompute: the caller's *guest (NoData until handed back)
    xml,        \* the elements of the map file, in file order
    input,      \* the struct cpuX86Data an operation is given
    allowlist,  \* the models array of x86Decode and x86Baseline (NULL: none)
    wanted,     \* the preferred model of x86Decode (NULL: none)
    options,    \* the flags of x86Decode and x86Baseline, as the set of those set
    cpuArray    \* the cpus array of x86Baseline

\* the arguments of the operations on CPU definitions and CPUID data
callVars == <<xml, input, allowlist, wanted, options, cpuArray>>

vars == <<map, last, model1, model2, result, host, cpu, pc, ret, message, guest, callVars>>

NULL == "NULL"

(***************************************************************************)
(* Bounds of the model.                                                    *)
(***************************************************************************)
\* longest basic array of the data x86ModelCompare is tried on
MaxLen == 2
\* number of callbacks the map loader receives
MaxLoads == 5
\* longest feature list of the cpu given to x86Compute
MaxFeatures == 2

(***************************************************************************)
(* CPUID leaves.                                                           *)
(***************************************************************************)
\* CPUX86_EXTENDED is 0x80000000 in the program; TLC's integers are 32-bit
\* signed, so the first extended function is scaled down.  Only the
\* comparison function < CPUX86_EXTENDED and the offset function -
\* CPUX86_EXTENDED are made with it, and no basic array of the model is
\* that long.
CPUX86_EXTENDED == 1024

VENDOR_STRING_LENGTH == 12

Cpuid(function, eax, ebx, ecx, edx) ==
    [function |-> function, eax |-> eax, ebx |-> ebx, ecx |-> ecx, edx |-> edx]

cpuidNull == Cpuid(0, {}, {}, {}, {})

\* the NULL struct cpuX86cpuid pointer
NoCpuid == Cpuid(-1, {}, {}, {}, {})

x86cpuidMatch(cpuid1, cpuid2) ==
    /\ cpuid1.eax = cpuid2.eax
    /\ cpuid1.ebx = cpuid2.ebx
    /\ cpuid1.ecx = cpuid2.ecx
    /\ cpuid1.edx = cpuid2.edx

x86cpuidMatchMasked(cpuid, mask) ==
    /\ (cpuid.eax \cap mask.eax) = mask.eax
    /\ (cpuid.ebx \cap mask.ebx) = mask.ebx
    /\ (cpuid.ecx \cap mask.ecx) = mask.ecx
    /\ (cpuid.edx \cap mask.edx) = mask.edx

x86cpuidSetBits(cpuid, mask) ==
    [cpuid EXCEPT !.eax = @ \cup mask.eax, !.ebx = @ \cup mask.ebx,
                  !.ecx = @ \cup mask.ecx, !.edx = @ \cup mask.edx]

x86cpuidClearBits(cpuid, mask) ==
    [cpuid EXCEPT !.eax = @ \ mask.eax, !.ebx = @ \ mask.ebx,
                  !.ecx = @ \ mask.ecx, !.edx = @ \ mask.edx]

x86cpuidAndBits(cpuid, mask) ==
    [cpuid EXCEPT !.eax = @ \cap mask.eax, !.ebx = @ \cap mask.ebx,
                  !.ecx = @ \cap mask.ecx, !.edx = @ \cap mask.edx]

(***************************************************************************)
(* struct cpuX86Data.                                                      *)
(***************************************************************************)
\* a freshly allocated (VIR_ALLOC) struct cpuX86Data
EmptyData == [basic |-> <<>>, extended |-> <<>>]

\* the NULL struct cpuX86Data / virCPUData pointer
NoData == [basic |-> <<NoCpuid>>, extended |-> <<>>]

\* The leaves x86DataCpuidNext returns, in order, until it returns NULL:
\* all of basic, then all of extended, the all-zero leaves skipped.
x86DataCpuidNext(data) ==
    LET NotNull(c) == ~x86cpuidMatch(c, cpuidNull)
    IN  SelectSeq(data.basic, NotNull) \o SelectSeq(data.extended, NotNull)

x86DataCpuid(data, function) ==
    LET cpuids == IF function < CPUX86_EXTENDED THEN data.basic ELSE data.extended
        i == IF function < CPUX86_EXTENDED THEN function
             ELSE function - CPUX86_EXTENDED
    IN  IF i < Len(cpuids) /\ ~x86cpuidMatch(cpuids[i + 1], cpuidNull)
        THEN cpuids[i + 1]
        ELSE NoCpuid

x86DataCopy(data) == data

\* the expansion that leaves the function of the new leaves zero
x86DataExpand_NoFunction(data, basic_by, extended_by) ==
    [basic |-> IF basic_by > 0
               THEN data.basic \o [i \in 1..basic_by |-> cpuidNull]
               ELSE data.basic,
     extended |-> IF extended_by > 0
                  THEN data.extended \o [i \in 1..extended_by |-> cpuidNull]
                  ELSE data.extended]

x86DataExpand(data, basic_by, extended_by) ==
    LET blen == Len(data.basic)
        elen == Len(data.extended)
        basic == IF basic_by > 0
                 THEN data.basic \o
                      [i \in 1..basic_by |-> Cpuid(blen + i - 1, {}, {}, {}, {})]
                 ELSE data.basic
        extended == IF extended_by > 0
                    THEN data.extended \o
                         [i \in 1..extended_by |->
                             Cpuid(elen + i - 1 + CPUX86_EXTENDED, {}, {}, {}, {})]
                    ELSE data.extended
    IN  [basic |-> basic, extended |-> extended]

x86DataAddCpuid(data, cpuid) ==
    IF cpuid.function < CPUX86_EXTENDED
    THEN LET pos == cpuid.function
             d == x86DataExpand(data, pos + 1 - Len(data.basic), 0)
         IN  [d EXCEPT !.basic[pos + 1] = x86cpuidSetBits(@, cpuid)]
    ELSE LET pos == cpuid.function - CPUX86_EXTENDED
             d == x86DataExpand(data, 0, pos + 1 - Len(data.extended))
         IN  [d EXCEPT !.extended[pos + 1] = x86cpuidSetBits(@, cpuid)]

x86DataAdd(data1, data2) ==
    LET d == x86DataExpand(data1,
                           Len(data2.basic) - Len(data1.basic),
                           Len(data2.extended) - Len(data1.extended))
    IN  [basic |-> [i \in 1..Len(d.basic) |->
                        IF i <= Len(data2.basic)
                        THEN x86cpuidSetBits(d.basic[i], data2.basic[i])
                        ELSE d.basic[i]],
         extended |-> [i \in 1..Len(d.extended) |->
                        IF i <= Len(data2.extended)
                        THEN x86cpuidSetBits(d.extended[i], data2.extended[i])
                        ELSE d.extended[i]]]

MIN(a, b) == IF a < b THEN a ELSE b

\* the subtraction without its second loop: the extended leaves stay
x86DataSubtract_BasicOnly(data1, data2) ==
    [basic |-> [i \in 1..Len(data1.basic) |->
                   IF i <= MIN(Len(data1.basic), Len(data2.basic))
                   THEN x86cpuidClearBits(data1.basic[i], data2.basic[i])
                   ELSE data1.basic[i]],
     extended |-> data1.extended]

x86DataSubtract(data1, data2) ==
    LET blen == MIN(Len(data1.basic), Len(data2.basic))
        elen == MIN(Len(data1.extended), Len(data2.extended))
    IN  [basic |-> [i \in 1..Len(data1.basic) |->
                        IF i <= blen
                        THEN x86cpuidClearBits(data1.basic[i], data2.basic[i])
                        ELSE data1.basic[i]],
         extended |-> [i \in 1..Len(data1.extended) |->
                        IF i <= elen
                        THEN x86cpuidClearBits(data1.extended[i], data2.extended[i])
                        ELSE data1.extended[i]]]

\* The loop body of x86DataIntersect on one leaf of data1; the iterator
\* skips the all-zero leaves, which are left as they are.
IntersectLeaf(cpuid1, data2) ==
    IF x86cpuidMatch(cpuid1, cpuidNull)
    THEN cpuid1
    ELSE LET cpuid2 == x86DataCpuid(data2, cpuid1.function)
         IN  IF cpuid2 # NoCpuid
             THEN x86cpuidAndBits(cpuid1, cpuid2)
             ELSE x86cpuidClearBits(cpuid1, cpuid1)

x86DataIntersect(data1, data2) ==
    [basic |-> [i \in 1..Len(data1.basic) |-> IntersectLeaf(data1.basic[i], data2)],
     extended |-> [i \in 1..Len(data1.extended) |->
                      IntersectLeaf(data1.extended[i], data2)]]

x86DataIsEmpty(data) == x86DataCpuidNext(data) = <<>>

x86DataIsSubset(data, subset) ==
    LET leaves == x86DataCpuidNext(subset)
    IN  \A k \in 1..Len(leaves) :
            LET cpuid == x86DataCpuid(data, leaves[k].function)
            IN  cpuid # NoCpuid /\ x86cpuidMatchMasked(cpuid, leaves[k])

(***************************************************************************)
(* struct x86_model and x86ModelCompare.                                   *)
(***************************************************************************)
\* vendor is the name of the struct x86_vendor pointed to, or NULL
Model(name, vendor, data) == [name |-> name, vendor |-> vendor, data |-> data]

\* the NULL struct x86_model pointer
NoModel == Model(NULL, NULL, NoData)

\* One of the two while loops of x86ModelCompare, from leaf k of the
\* iterated model on: other is the data of the other model, default the
\* value match starts with, opposite the value it is changed to.  The
\* value is the running result, or "UNRELATED" when the loop returns.
RECURSIVE CompareLoop(_, _, _, _, _, _)
CompareLoop(leaves, k, other, default, opposite, res) ==
    IF k > Len(leaves)
    THEN res
    ELSE LET c1 == leaves[k]
             c2 == x86DataCpuid(other, c1.function)
         IN  IF c2 # NoCpuid /\ x86cpuidMatch(c1, c2)
             THEN CompareLoop(leaves, k + 1, other, default, opposite, res)
             ELSE LET match == IF c2 # NoCpuid /\ ~x86cpuidMatchMasked(c1, c2)
                               THEN opposite
                               ELSE default
                  IN  IF res = "EQUAL"
                      THEN CompareLoop(leaves, k + 1, other, default, opposite, match)
                      ELSE IF res # match
                           THEN "UNRELATED"
                           ELSE CompareLoop(leaves, k + 1, other, default, opposite, res)

\* x86ModelCompare without its second loop
x86ModelCompare_FirstLoopOnly(m1, m2) ==
    CompareLoop(x86DataCpuidNext(m1.data), 1, m2.data, "SUPERSET", "SUBSET", "EQUAL")

x86ModelCompare(m1, m2) ==
    LET first == CompareLoop(x86DataCpuidNext(m1.data), 1, m2.data,
                             "SUPERSET", "SUBSET", "EQUAL")
    IN  IF first = "UNRELATED"
        THEN "UNRELATED"
        ELSE CompareLoop(x86DataCpuidNext(m2.data), 1, m1.data,
                         "SUBSET", "SUPERSET", first)

(***************************************************************************)
(* The catalog: struct x86_map and its loader.  An XML element is a record *)
(* of what the XPath accessors return for it; an absent attribute is NULL  *)
(* (NoString for the vendor string).  Each loader returns the map it       *)
(* leaves, its return value and the path it left by: "added", or the error *)
(* it reported before the goto ignore.                                     *)
(***************************************************************************)
\* a freshly allocated struct x86_map
EmptyMap == [vendors |-> <<>>, features |-> <<>>, models |-> <<>>]

Vendor(name, cpuid) == [name |-> name, cpuid |-> cpuid]
Feature(name, data) == [name |-> name, data |-> data]

NoString == <<-1>>

Loaded(m, r, outcome) == [map |-> m, ret |-> r, outcome |-> outcome]

\* the first element of the list with that name: position, 0 when there is none
Find(list, name) ==
    IF \E i \in 1..Len(list) : list[i].name = name
    THEN CHOOSE i \in 1..Len(list) :
            list[i].name = name /\ \A j \in 1..(i - 1) : list[j].name # name
    ELSE 0

x86VendorFind(m, name) == Find(m.vendors, name)
x86FeatureFind(m, name) == Find(m.features, name)
x86ModelFind(m, name) == Find(m.models, name)

\* virReadBufInt32LE of the four bytes after offset off
virReadBufInt32LE(string, off) ==
    string[off + 1] + 256 * string[off + 2] + 65536 * string[off + 3]
    + 16777216 * string[off + 4]

\* the register holding the number n (n < 2^31: the bytes are ASCII)
Register(n) == {b \in 0..30 : (n \div (2 ^ b)) % 2 = 1}

\* x86VendorLoad whose rejections leave by the error label (ret = -1)
x86VendorLoad_RejectIsError(elem, m) ==
    IF elem.name = NULL
    THEN Loaded(m, -1, "MissingName")
    ELSE IF x86VendorFind(m, elem.name) # 0
    THEN Loaded(m, -1, "DuplicateName")
    ELSE IF elem.string = NoString
    THEN Loaded(m, -1, "MissingString")
    ELSE IF Len(elem.string) # VENDOR_STRING_LENGTH
    THEN Loaded(m, -1, "MalformedVendor")
    ELSE LET vendor == Vendor(elem.name,
                              Cpuid(0, {},
                                    Register(virReadBufInt32LE(elem.string, 0)),
                                    Register(virReadBufInt32LE(elem.string, 8)),
                                    Register(virReadBufInt32LE(elem.string, 4))))
         IN  Loaded([m EXCEPT !.vendors = <<vendor>> \o @], 0, "added")

x86VendorLoad(elem, m) ==
    IF elem.name = NULL
    THEN Loaded(m, 0, "MissingName")
    ELSE IF x86VendorFind(m, elem.name) # 0
    THEN Loaded(m, 0, "DuplicateName")
    ELSE IF elem.string = NoString
    THEN Loaded(m, 0, "MissingString")
    ELSE IF Len(elem.string) # VENDOR_STRING_LENGTH
    THEN Loaded(m, 0, "MalformedVendor")
    ELSE LET vendor == Vendor(elem.name,
                              Cpuid(0, {},
                                    Register(virReadBufInt32LE(elem.string, 0)),
                                    Register(virReadBufInt32LE(elem.string, 8)),
                                    Register(virReadBufInt32LE(elem.string, 4))))
         IN  Loaded([m EXCEPT !.vendors = <<vendor>> \o @], 0, "added")

\* a ./cpuid node: each ret_ is what virXPathULongHex returned (0, -1 for
\* an absent attribute, -2 for a malformed one), each value what it stored
CpuidNode(ret_fun, fun, ret_eax, eax, ret_ebx, ebx, ret_ecx, ecx, ret_edx, edx) ==
    [ret_fun |-> ret_fun, fun |-> fun, ret_eax |-> ret_eax, eax |-> eax,
     ret_ebx |-> ret_ebx, ebx |-> ebx, ret_ecx |-> ret_ecx, ecx |-> ecx,
     ret_edx |-> ret_edx, edx |-> edx]

CpuidNodeInvalid(n) ==
    \/ n.ret_fun < 0
    \/ n.ret_eax = -2 \/ n.ret_ebx = -2 \/ n.ret_ecx = -2 \/ n.ret_edx = -2

\* the for loop of x86FeatureLoad from node i on, data being feature->data:
\* NoData on the goto ignore
RECURSIVE FeatureLoadNodes(_, _, _)
FeatureLoadNodes(nodes, i, data) ==
    IF i > Len(nodes)
    THEN data
    ELSE IF CpuidNodeInvalid(nodes[i])
    THEN NoData
    ELSE FeatureLoadNodes(nodes, i + 1,
            x86DataAddCpuid(data, Cpuid(nodes[i].fun, nodes[i].eax, nodes[i].ebx,
                                        nodes[i].ecx, nodes[i].edx)))

\* x86FeatureLoad that links the feature into the map before it reads the
\* cpuid nodes
x86FeatureLoad_LinkBeforeParse(elem, m) ==
    IF elem.name = NULL
    THEN Loaded(m, 0, "MissingName")
    ELSE IF x86FeatureFind(m, elem.name) # 0
    THEN Loaded(m, 0, "DuplicateName")
    ELSE LET data == FeatureLoadNodes(elem.cpuids, 1, EmptyData)
         IN  IF data = NoData
             THEN Loaded([m EXCEPT !.features = <<Feature(elem.name, EmptyData)>> \o @],
                         0, "MalformedCPUID")
             ELSE Loaded([m EXCEPT !.features = <<Feature(elem.name, data)>> \o @],
                         0, "added")

x86FeatureLoad(elem, m) ==
    IF elem.name = NULL
    THEN Loaded(m, 0, "MissingName")
    ELSE IF x86FeatureFind(m, elem.name) # 0
    THEN Loaded(m, 0, "DuplicateName")
    ELSE LET data == FeatureLoadNodes(elem.cpuids, 1, EmptyData)
         IN  IF data = NoData
             THEN Loaded(m, 0, "MalformedCPUID")
             ELSE Loaded([m EXCEPT !.features = <<Feature(elem.name, data)>> \o @],
                         0, "added")

\* the loop over the ./feature nodes that skips a feature the map lacks
RECURSIVE ModelLoadFeatures_SkipUnknown(_, _, _, _)
ModelLoadFeatures_SkipUnknown(names, i, data, m) ==
    IF i > Len(names)
    THEN [outcome |-> "added", data |-> data]
    ELSE IF names[i] = NULL
    THEN [outcome |-> "MissingFeatureName", data |-> data]
    ELSE IF x86FeatureFind(m, names[i]) = 0
    THEN ModelLoadFeatures_SkipUnknown(names, i + 1, data, m)
    ELSE ModelLoadFeatures_SkipUnknown(names, i + 1,
            x86DataAdd(data, m.features[x86FeatureFind(m, names[i])].data), m)

\* the for loop of x86ModelLoad over the ./feature nodes from node i on,
\* data being model->data: the data, or the error of the goto ignore
RECURSIVE ModelLoadFeatures(_, _, _, _)
ModelLoadFeatures(names, i, data, m) ==
    IF i > Len(names)
    THEN [outcome |-> "added", data |-> data]
    ELSE IF names[i] = NULL
    THEN [outcome |-> "MissingFeatureName", data |-> data]
    ELSE IF x86FeatureFind(m, names[i]) = 0
    THEN [outcome |-> "UnknownFeature", data |-> data]
    ELSE ModelLoadFeatures(names, i + 1,
            x86DataAdd(data, m.features[x86FeatureFind(m, names[i])].data), m)

x86ModelLoad(elem, m) ==
    IF elem.name = NULL
    THEN Loaded(m, 0, "MissingName")
    ELSE IF elem.hasAncestor /\ elem.ancestor = NULL
    THEN Loaded(m, 0, "MissingAncestorName")
    ELSE IF elem.hasAncestor /\ x86ModelFind(m, elem.ancestor) = 0
    THEN Loaded(m, 0, "UnknownAncestor")
    ELSE LET inherited ==
                 IF elem.hasAncestor
                 THEN LET ancestor == m.models[x86ModelFind(m, elem.ancestor)]
                      IN  Model(elem.name, ancestor.vendor, x86DataCopy(ancestor.data))
                 ELSE Model(elem.name, NULL, EmptyData)
         IN  IF elem.hasVendor /\ elem.vendor = NULL
             THEN Loaded(m, 0, "InvalidVendor")
             ELSE IF elem.hasVendor /\ x86VendorFind(m, elem.vendor) = 0
             THEN Loaded(m, 0, "UnknownVendor")
             ELSE LET vendor == IF elem.hasVendor
                                THEN m.vendors[x86VendorFind(m, elem.vendor)].name
                                ELSE inherited.vendor
                      fs == ModelLoadFeatures(elem.features, 1, inherited.data, m)
                  IN  IF fs.outcome # "added"
                      THEN Loaded(m, 0, fs.outcome)
                      ELSE Loaded([m EXCEPT !.models =
                                      <<Model(elem.name, vendor, fs.data)>> \o @],
                                  0, "added")

x86MapLoadCallback(elem, m) ==
    CASE elem.kind = "VENDOR" -> x86VendorLoad(elem, m)
      [] elem.kind = "FEATURE" -> x86FeatureLoad(elem, m)
      [] elem.kind = "MODEL" -> x86ModelLoad(elem, m)
      [] OTHER -> Loaded(m, 0, "none")

(***************************************************************************)
(* cpuMapLoad("x86", x86MapLoadCallback, map): the callback is called on   *)
(* every element of the map file, and loading stops when it returns < 0.   *)
(* cpu_map is the catalog of the specification's scenarios: vendors Intel  *)
(* and AMD, features fpu, sse2 and lm, models base, core2 and x86_64.      *)
(***************************************************************************)
RECURSIVE cpuMapLoad(_, _, _)
cpuMapLoad(elements, i, m) ==
    IF i > Len(elements)
    THEN m
    ELSE LET r == x86MapLoadCallback(elements[i], m)
         IN  IF r.ret < 0 THEN EmptyMap ELSE cpuMapLoad(elements, i + 1, r.map)

cpu_map ==
    << [kind |-> "VENDOR", name |-> "Intel",
        string |-> <<71, 101, 110, 117, 105, 110, 101, 73, 110, 116, 101, 108>>],
       [kind |-> "VENDOR", name |-> "AMD",
        string |-> <<65, 117, 116, 104, 101, 110, 116, 105, 99, 65, 77, 68>>],
       [kind |-> "FEATURE", name |-> "fpu",
        cpuids |-> <<CpuidNode(0, 1, -1, {}, -1, {}, -1, {}, 0, {0})>>],
       [kind |-> "FEATURE", name |-> "sse2",
        cpuids |-> <<CpuidNode(0, 1, -1, {}, -1, {}, -1, {}, 0, {26})>>],
       [kind |-> "FEATURE", name |-> "lm",
        cpuids |-> <<CpuidNode(0, CPUX86_EXTENDED + 1, -1, {}, -1, {}, -1, {}, 0, {29})>>],
       [kind |-> "MODEL", name |-> "base", hasAncestor |-> FALSE, ancestor |-> NULL,
        hasVendor |-> FALSE, vendor |-> NULL, features |-> <<"fpu">>],
       [kind |-> "MODEL", name |-> "core2", hasAncestor |-> TRUE, ancestor |-> "base",
        hasVendor |-> TRUE, vendor |-> "Intel", features |-> <<"sse2">>],
       [kind |-> "MODEL", name |-> "x86_64", hasAncestor |-> TRUE, ancestor |-> "core2",
        hasVendor |-> FALSE, vendor |-> NULL, features |-> <<"lm">>] >>

x86LoadMap == cpuMapLoad(cpu_map, 1, EmptyMap)

(***************************************************************************)
(* virCPUDef: arch, type, match, model, vendor (NULL when absent) and the  *)
(* features array of (name, policy).  The features of a HOST definition    *)
(* carry no policy: it is -1 in the program, "unset" here.                 *)
(***************************************************************************)
CPUDef(arch, type, match, model, vendor, features) ==
    [arch |-> arch, type |-> type, match |-> match, model |-> model,
     vendor |-> vendor, features |-> features]

CPUFeature(name, policy) == [name |-> name, policy |-> policy]

\* the NULL virCPUDefPtr
NoCPU == [type |-> "none"]

archs == <<"i686", "x86_64">>

\* the for loop of x86ModelFromCPU from feature i on: NoModel on error
RECURSIVE ModelFromCPUFeatures(_, _, _, _, _)
ModelFromCPUFeatures(c, m, policy, i, model) ==
    IF i > Len(c.features)
    THEN model
    ELSE IF c.type = "GUEST" /\ c.features[i].policy # policy
    THEN ModelFromCPUFeatures(c, m, policy, i + 1, model)
    ELSE IF x86FeatureFind(m, c.features[i].name) = 0
    THEN NoModel
    ELSE ModelFromCPUFeatures(c, m, policy, i + 1,
            [model EXCEPT !.data =
                x86DataAdd(@, m.features[x86FeatureFind(m, c.features[i].name)].data)])

x86ModelCopy(model) == Model(model.name, model.vendor, x86DataCopy(model.data))

x86ModelFromCPU(c, m, policy) ==
    IF policy = "REQUIRE"
    THEN IF x86ModelFind(m, c.model) = 0
         THEN NoModel
         ELSE ModelFromCPUFeatures(c, m, policy, 1,
                                   x86ModelCopy(m.models[x86ModelFind(m, c.model)]))
    ELSE IF c.type = "HOST"
    THEN Model(NULL, NULL, EmptyData)
    ELSE ModelFromCPUFeatures(c, m, policy, 1, Model(NULL, NULL, EmptyData))

(***************************************************************************)
(* From CPUID data to a CPU definition: x86DataToCPUFeatures,              *)
(* x86DataToVendor, x86DataToCPU.  Each takes the map m it is given.  An   *)
(* operation that changes the data it is given returns the data it leaves. *)
(***************************************************************************)
\* virCPUDefAddFeature(cpu, name, policy): the feature is added at the end
\* of cpu->features
virCPUDefAddFeature(c, name, policy) ==
    [c EXCEPT !.features = Append(@, CPUFeature(name, policy))]

Peeled(c, d) == [cpu |-> c, data |-> d]

\* the while loop of x86DataToCPUFeatures from the i-th feature of the
\* list on (the first is map->features, the head)
RECURSIVE DataToCPUFeaturesLoop(_, _, _, _, _)
DataToCPUFeaturesLoop(c, policy, d, m, i) ==
    IF i > Len(m.features)
    THEN Peeled(c, d)
    ELSE IF x86DataIsSubset(d, m.features[i].data)
    THEN DataToCPUFeaturesLoop(virCPUDefAddFeature(c, m.features[i].name, policy), policy,
                               x86DataSubtract(d, m.features[i].data), m, i + 1)
    ELSE DataToCPUFeaturesLoop(c, policy, d, m, i + 1)

\* the same loop walking the list from its tail, the first feature loaded
RECURSIVE DataToCPUFeaturesLoop_FromTail(_, _, _, _, _)
DataToCPUFeaturesLoop_FromTail(c, policy, d, m, i) ==
    IF i < 1
    THEN Peeled(c, d)
    ELSE IF x86DataIsSubset(d, m.features[i].data)
    THEN DataToCPUFeaturesLoop_FromTail(
             virCPUDefAddFeature(c, m.features[i].name, policy), policy,
             x86DataSubtract(d, m.features[i].data), m, i - 1)
    ELSE DataToCPUFeaturesLoop_FromTail(c, policy, d, m, i - 1)

x86DataToCPUFeatures_FromTail(c, policy, d, m) ==
    DataToCPUFeaturesLoop_FromTail(c, policy, d, m, Len(m.features))

x86DataToCPUFeatures(c, policy, d, m) == DataToCPUFeaturesLoop(c, policy, d, m, 1)

\* data with the leaf of that function replaced
SetCpuid(d, function, cpuid) ==
    IF function < CPUX86_EXTENDED
    THEN [d EXCEPT !.basic[function + 1] = cpuid]
    ELSE [d EXCEPT !.extended[function - CPUX86_EXTENDED + 1] = cpuid]

\* the while loop of x86DataToVendor from the i-th vendor of the list on:
\* the name of the vendor returned (NULL: none) and the data left
RECURSIVE DataToVendorLoop(_, _, _)
DataToVendorLoop(d, m, i) ==
    IF i > Len(m.vendors)
    THEN [vendor |-> NULL, data |-> d]
    ELSE IF /\ x86DataCpuid(d, m.vendors[i].cpuid.function) # NoCpuid
            /\ x86cpuidMatchMasked(x86DataCpuid(d, m.vendors[i].cpuid.function),
                                   m.vendors[i].cpuid)
    THEN [vendor |-> m.vendors[i].name,
          data |-> SetCpuid(d, m.vendors[i].cpuid.function,
                            x86cpuidClearBits(
                                x86DataCpuid(d, m.vendors[i].cpuid.function),
                                m.vendors[i].cpuid))]
    ELSE DataToVendorLoop(d, m, i + 1)

x86DataToVendor(d, m) == DataToVendorLoop(d, m, 1)

\* x86DataToCPU from x86DataSubtract(copy, modelData) on, v being what
\* x86DataToVendor returned for copy
DataToCPUPeel(d, model, m, v) ==
    x86DataToCPUFeatures(
        x86DataToCPUFeatures(
            [type |-> "GUEST", model |-> model.name, vendor |-> v.vendor,
             features |-> <<>>],
            "REQUIRE", x86DataSubtract(v.data, x86DataCopy(model.data)), m).cpu,
        "DISABLE", x86DataSubtract(x86DataCopy(model.data), d), m).cpu

x86DataToCPU(d, model, m) == DataToCPUPeel(d, model, m, x86DataToVendor(x86DataCopy(d), m))

\* the for loop of x86DataFromCPUFeatures from feature i on: NoData on error
RECURSIVE DataFromCPUFeaturesLoop(_, _, _, _)
DataFromCPUFeaturesLoop(c, m, i, d) ==
    IF i > Len(c.features)
    THEN d
    ELSE IF x86FeatureFind(m, c.features[i].name) = 0
    THEN NoData
    ELSE DataFromCPUFeaturesLoop(c, m, i + 1,
             x86DataAdd(d, m.features[x86FeatureFind(m, c.features[i].name)].data))

x86DataFromCPUFeatures(c, m) == DataFromCPUFeaturesLoop(c, m, 1, EmptyData)

(***************************************************************************)
(* x86Decode.  The cpu it is given carries type and fallback; model,       *)
(* vendor and features are what it fills in.  models is the array of the   *)
(* models the caller allows, NULL when there is none.                      *)
(***************************************************************************)
\* cpuModelIsAllowed(model, models, nmodels)
cpuModelIsAllowed(model, models) ==
    models = NULL \/ \E i \in 1..Len(models) : models[i] = model

\* cpuModel and cpuData as the loop over the candidates leaves them
\* (cpuModel is NoCPU while NULL), error when it left by goto out
Selected(cpuModel, cpuData, error) ==
    [cpuModel |-> cpuModel, cpuData |-> cpuData, error |-> error]

\* the type and the policies of cpuCandidate after the block for a HOST cpu
HostCandidate(c, cpuCandidate) ==
    IF c.type = "HOST"
    THEN [cpuCandidate EXCEPT
             !.type = "HOST",
             !.features = [k \in 1..Len(@) |-> CPUFeature(@[k].name, "unset")]]
    ELSE cpuCandidate

\* the block for a HOST cpu leaves by goto next
HostSkips(c, cpuCandidate) ==
    /\ c.type = "HOST"
    /\ \E k \in 1..Len(cpuCandidate.features) : cpuCandidate.features[k].policy = "DISABLE"

\* the vendor of the candidate differs from the one found in the data
VendorSkips(candidate, cpuCandidate) ==
    /\ candidate.vendor # NULL /\ cpuCandidate.vendor # NULL
    /\ candidate.vendor # cpuCandidate.vendor

\* the choice that also replaces cpuModel by a candidate with as many features
KeepsCandidate_OnTie(cpuModel, cpuCandidate) ==
    cpuModel = NoCPU \/ Len(cpuModel.features) >= Len(cpuCandidate.features)

\* cpuCandidate replaces cpuModel
KeepsCandidate(cpuModel, cpuCandidate) ==
    cpuModel = NoCPU \/ Len(cpuModel.features) > Len(cpuCandidate.features)

IsPreferred(preferred, name) == preferred # NULL /\ name = preferred

\* the while loop of x86Decode from the i-th model of the list on
RECURSIVE DecodeLoop(_, _, _, _, _, _, _, _)

\* the body of the loop from if (preferred && STREQ(cpuCandidate->model, ...)) on
DecodeSelect(c, d, models, preferred, m, i, cpuModel, cpuData, cpuCandidate) ==
    IF IsPreferred(preferred, cpuCandidate.model)
    THEN Selected(cpuCandidate, m.models[i].data, "none")
    ELSE IF KeepsCandidate(cpuModel, cpuCandidate)
    THEN DecodeLoop(c, d, models, preferred, m, i + 1, cpuCandidate, m.models[i].data)
    ELSE DecodeLoop(c, d, models, preferred, m, i + 1, cpuModel, cpuData)

\* the body of the loop once x86DataToCPU returned cpuCandidate
DecodeCandidate(c, d, models, preferred, m, i, cpuModel, cpuData, cpuCandidate) ==
    IF VendorSkips(m.models[i], cpuCandidate) \/ HostSkips(c, cpuCandidate)
    THEN DecodeLoop(c, d, models, preferred, m, i + 1, cpuModel, cpuData)
    ELSE DecodeSelect(c, d, models, preferred, m, i, cpuModel, cpuData,
                      HostCandidate(c, cpuCandidate))

\* the loop that goes on after a preferred model that is not allowed,
\* whatever the fallback
DecodeLoop_IgnoreFallback(c, d, models, preferred, m, i, cpuModel, cpuData) ==
    IF i > Len(m.models)
    THEN Selected(cpuModel, cpuData, "none")
    ELSE IF ~cpuModelIsAllowed(m.models[i].name, models)
    THEN DecodeLoop(c, d, models, preferred, m, i + 1, cpuModel, cpuData)
    ELSE DecodeCandidate(c, d, models, preferred, m, i, cpuModel, cpuData,
                         x86DataToCPU(d, m.models[i], m))

DecodeLoop(c, d, models, preferred, m, i, cpuModel, cpuData) ==
    IF i > Len(m.models)
    THEN Selected(cpuModel, cpuData, "none")
    ELSE IF ~cpuModelIsAllowed(m.models[i].name, models)
    THEN IF IsPreferred(preferred, m.models[i].name) /\ c.fallback # "ALLOW"
         THEN Selected(cpuModel, cpuData, "UnsupportedModel")
         ELSE DecodeLoop(c, d, models, preferred, m, i + 1, cpuModel, cpuData)
    ELSE DecodeCandidate(c, d, models, preferred, m, i, cpuModel, cpuData,
                         x86DataToCPU(d, m.models[i], m))

Decoded(r, c, error) == [ret |-> r, cpu |-> c, error |-> error]

\* the expansion that peels the data decoded, not the data of the model
ExpandFeatures_OfData(d, cpuModel, cpuData, m) ==
    x86DataToCPUFeatures(cpuModel, "REQUIRE",
                         x86DataSubtract(x86DataCopy(d),
                                         x86DataFromCPUFeatures(cpuModel, m)), m).cpu

\* cpuModel after the block for VIR_CONNECT_BASELINE_CPU_EXPAND_FEATURES
ExpandFeatures(d, cpuModel, cpuData, m) ==
    x86DataToCPUFeatures(cpuModel, "REQUIRE",
                         x86DataSubtract(x86DataCopy(cpuData),
                                         x86DataFromCPUFeatures(cpuModel, m)), m).cpu

\* x86Decode from the end of the loop on, cpuModel being the final one
DecodeOutput(c, cpuModel) ==
    Decoded(0, [c EXCEPT !.model = cpuModel.model, !.vendor = cpuModel.vendor,
                         !.features = cpuModel.features], "none")

\* x86Decode after the loop, sel being what the loop left
DecodeFinish(c, d, flags, m, sel) ==
    IF sel.error # "none"
    THEN Decoded(-1, c, sel.error)
    ELSE IF sel.cpuModel = NoCPU
    THEN Decoded(-1, c, "NoSuitableModel")
    ELSE IF "EXPAND_FEATURES" \in flags
    THEN IF x86DataFromCPUFeatures(sel.cpuModel, m) = NoData
         THEN Decoded(-1, c, "UnknownFeature")
         ELSE DecodeOutput(c, ExpandFeatures(d, sel.cpuModel, sel.cpuData, m))
    ELSE DecodeOutput(c, sel.cpuModel)

\* x86Decode once the map m is loaded
DecodeMap(c, d, models, preferred, flags, m) ==
    IF d = NoData
    THEN Decoded(-1, c, "NoData")
    ELSE DecodeFinish(c, d, flags, m,
                      DecodeLoop(c, d, models, preferred, m, 1, NoCPU, NoData))

x86Decode(c, d, models, preferred, flags) ==
    DecodeMap(c, d, models, preferred, flags, x86LoadMap)

(***************************************************************************)
(* x86Encode.  want is the set of the outputs the caller asks for (the     *)
(* non-NULL pointers among forced, required, optional, disabled,           *)
(* forbidden and vendor); an output not asked for, and the vendor data of  *)
(* a cpu without vendor, is NoData.                                        *)
(***************************************************************************)
x86EncodePolicy(c, m, policy) ==
    IF x86ModelFromCPU(c, m, policy) = NoModel
    THEN NoData
    ELSE x86ModelFromCPU(c, m, policy).data

\* the encoding of a policy that leaves the listed features out
EncodeWanted_ModelOnly(c, m, want, output, policy) ==
    IF output \in want
    THEN x86EncodePolicy([c EXCEPT !.features = <<>>], m, policy)
    ELSE EmptyData

\* data_forced, ..., data_forbidden: EmptyData stands for the NULL of an
\* output not asked for, NoData for the failure of x86EncodePolicy
EncodeWanted(c, m, want, output, policy) ==
    IF output \in want THEN x86EncodePolicy(c, m, policy) ELSE EmptyData

\* the block if (vendor): NoData when the vendor is not found
EncodeVendor(c, m, want) ==
    IF "vendor" \in want /\ c.vendor # NULL
    THEN IF x86VendorFind(m, c.vendor) = 0
         THEN NoData
         ELSE x86DataAddCpuid(EmptyData, m.vendors[x86VendorFind(m, c.vendor)].cpuid)
    ELSE EmptyData

Encoded(r, want, forced, required, optional, disabled, forbidden, vendor) ==
    [ret |-> r,
     forced |-> IF r = 0 /\ "forced" \in want THEN forced ELSE NoData,
     required |-> IF r = 0 /\ "required" \in want THEN required ELSE NoData,
     optional |-> IF r = 0 /\ "optional" \in want THEN optional ELSE NoData,
     disabled |-> IF r = 0 /\ "disabled" \in want THEN disabled ELSE NoData,
     forbidden |-> IF r = 0 /\ "forbidden" \in want THEN forbidden ELSE NoData,
     vendor |-> IF r = 0 /\ "vendor" \in want /\ vendor # EmptyData THEN vendor ELSE NoData]

\* x86Encode once the six data are computed
EncodeResult(want, forced, required, optional, disabled, forbidden, vendor) ==
    Encoded(IF NoData \in {forced, required, optional, disabled, forbidden, vendor}
            THEN -1 ELSE 0,
            want, forced, required, optional, disabled, forbidden, vendor)

\* x86Encode once the map m is loaded
EncodeMap(c, m, want) ==
    EncodeResult(want,
                 EncodeWanted(c, m, want, "forced", "FORCE"),
                 EncodeWanted(c, m, want, "required", "REQUIRE"),
                 EncodeWanted(c, m, want, "optional", "OPTIONAL"),
                 EncodeWanted(c, m, want, "disabled", "DISABLE"),
                 EncodeWanted(c, m, want, "forbidden", "FORBID"),
                 EncodeVendor(c, m, want))

x86Encode(c, want) == EncodeMap(c, x86LoadMap, want)

(***************************************************************************)
(* x86Baseline.  The state of the loop over cpus: the data of base_model,  *)
(* the name of the vendor found (NULL while there is none), outputVendor,  *)
(* and the error reported, "none" while there is none.                     *)
(***************************************************************************)
Baselining(d, vendor, outputVendor, error) ==
    [data |-> d, vendor |-> vendor, outputVendor |-> outputVendor, error |-> error]

\* lines 1742-1757: base_model and the vendor of cpus[0]
BaselineFirst(c, m) ==
    IF x86ModelFromCPU(c, m, "REQUIRE") = NoModel
    THEN Baselining(NoData, NULL, TRUE, "ModelFromCPU")
    ELSE IF c.vendor = NULL
    THEN Baselining(x86ModelFromCPU(c, m, "REQUIRE").data, NULL, FALSE, "none")
    ELSE IF x86VendorFind(m, c.vendor) = 0
    THEN Baselining(NoData, NULL, TRUE, "UnknownVendor")
    ELSE Baselining(x86ModelFromCPU(c, m, "REQUIRE").data, c.vendor, TRUE, "none")

\* lines 1772-1778: vn of cpus[i], whose REQUIRE model is model
BaselineVendorName(c, model) == IF c.vendor # NULL THEN c.vendor ELSE model.vendor

\* lines 1780-1792 with the intersection of line 1794: vn against vendor
BaselineUnify_KeepFirst(st, vn, model, m, outputVendor) ==
    IF vn # NULL /\ st.vendor = NULL /\ x86VendorFind(m, vn) = 0
    THEN Baselining(NoData, NULL, outputVendor, "UnknownVendor")
    ELSE Baselining(x86DataIntersect(st.data, model.data),
                    IF st.vendor = NULL THEN vn ELSE st.vendor, outputVendor, "none")

BaselineUnify(st, vn, model, m, outputVendor) ==
    IF vn # NULL /\ st.vendor = NULL /\ x86VendorFind(m, vn) = 0
    THEN Baselining(NoData, NULL, outputVendor, "UnknownVendor")
    ELSE IF vn # NULL /\ st.vendor # NULL /\ st.vendor # vn
    THEN Baselining(NoData, NULL, outputVendor, "VendorsDoNotMatch")
    ELSE Baselining(x86DataIntersect(st.data, model.data),
                    IF st.vendor = NULL THEN vn ELSE st.vendor, outputVendor, "none")

\* lines 1759-1797: one turn of the loop, for cpus[i] = c
BaselineStep(st, c, m, model) ==
    IF model = NoModel
    THEN Baselining(NoData, NULL, st.outputVendor, "ModelFromCPU")
    ELSE IF c.vendor # NULL /\ model.vendor # NULL /\ c.vendor # model.vendor
    THEN Baselining(NoData, NULL, st.outputVendor, "VendorDiffers")
    ELSE BaselineUnify(st, BaselineVendorName(c, model), model, m,
                       st.outputVendor /\ c.vendor # NULL)

RECURSIVE BaselineLoop(_, _, _, _)
BaselineLoop(cpus, m, i, st) ==
    IF st.error # "none" \/ i > Len(cpus)
    THEN st
    ELSE BaselineLoop(cpus, m, i + 1,
                      BaselineStep(st, cpus[i], m, x86ModelFromCPU(cpus[i], m, "REQUIRE")))

\* lines 1748-1750: the virCPUDef allocated for the result
BaselineCPU(c) ==
    [arch |-> c.arch, type |-> "GUEST", match |-> "EXACT", fallback |-> "ALLOW",
     model |-> NULL, vendor |-> NULL, features |-> <<>>]

\* lines 1805-1806: the leaf of the vendor found goes back into the data
BaselineData_NoVendorLeaf(st, m) == st.data

BaselineData(st, m) ==
    IF st.vendor = NULL
    THEN st.data
    ELSE x86DataAddCpuid(st.data, m.vendors[x86VendorFind(m, st.vendor)].cpuid)

\* lines 1811-1814 and 1822-1826: the result of x86Decode made the result
BaselineOutput(r, outputVendor) ==
    IF r.ret < 0
    THEN Decoded(-1, NoCPU, r.error)
    ELSE Decoded(0, [r.cpu EXCEPT !.vendor = IF outputVendor THEN @ ELSE NULL,
                                  !.arch = "none"], "none")

\* lines 1799-1816, st the state the loop ended in
BaselineFinish(cpus, models, flags, m, st) ==
    IF st.error # "none"
    THEN Decoded(-1, NoCPU, st.error)
    ELSE IF x86DataIsEmpty(st.data)
    THEN Decoded(-1, NoCPU, "Incompatible")
    ELSE BaselineOutput(DecodeMap(BaselineCPU(cpus[1]), BaselineData(st, m), models, NULL,
                                  flags, m),
                        st.outputVendor)

\* x86Baseline once the map m is loaded
BaselineMap(cpus, models, flags, m) ==
    BaselineFinish(cpus, models, flags, m, BaselineLoop(cpus, m, 2, BaselineFirst(cpus[1], m)))

x86Baseline(cpus, models, flags) == BaselineMap(cpus, models, flags, x86LoadMap)

(***************************************************************************)
(* x86Update, guest->mode CUSTOM.                                          *)
(***************************************************************************)
\* the data of the model once the model and every feature of c are
\* subtracted, NoData when a name of c is not in the map
RECURSIVE ModelSubtractCPULoop(_, _, _, _)
ModelSubtractCPULoop(d, c, m, i) ==
    IF i > Len(c.features)
    THEN d
    ELSE IF x86FeatureFind(m, c.features[i].name) = 0
    THEN NoData
    ELSE ModelSubtractCPULoop(
            x86DataSubtract(d, m.features[x86FeatureFind(m, c.features[i].name)].data),
            c, m, i + 1)

x86ModelSubtractCPU(model, c, m) ==
    IF x86ModelFind(m, c.model) = 0
    THEN NoData
    ELSE ModelSubtractCPULoop(
            x86DataSubtract(model.data, m.models[x86ModelFind(m, c.model)].data), c, m, 1)

\* lines 1854-1857: the policy an OPTIONAL feature gets
UpdatePolicy_WhenSharesBit(hostData, feature) ==
    IF ~x86DataIsEmpty(x86DataIntersect(feature.data, hostData)) THEN "REQUIRE" ELSE "DISABLE"

UpdatePolicy(hostData, feature) ==
    IF x86DataIsSubset(hostData, feature.data) THEN "REQUIRE" ELSE "DISABLE"

Updated(r, c) == [ret |-> r, cpu |-> c]

\* lines 1845-1859: the loop over the features of the guest, from feature i
RECURSIVE UpdateCustomLoop(_, _, _, _)
UpdateCustomLoop(g, hostData, m, i) ==
    IF i > Len(g.features)
    THEN Updated(0, g)
    ELSE IF g.features[i].policy # "OPTIONAL"
    THEN UpdateCustomLoop(g, hostData, m, i + 1)
    ELSE IF x86FeatureFind(m, g.features[i].name) = 0
    THEN Updated(-1, g)
    ELSE UpdateCustomLoop(
            [g EXCEPT !.features[i].policy =
                UpdatePolicy(hostData, m.features[x86FeatureFind(m, g.features[i].name)])],
            hostData, m, i + 1)

\* lines 1861-1867: match MINIMUM, subtracted the host data less the guest
UpdateCustomMinimum(g, m, subtracted) ==
    IF subtracted = NoData
    THEN Updated(-1, g)
    ELSE Updated(0, x86DataToCPUFeatures(g, "REQUIRE", subtracted, m).cpu)

\* lines 1861-1869, r the result of the loop
UpdateCustomMatch(r, host_model, m) ==
    IF r.ret < 0 \/ r.cpu.match # "MINIMUM"
    THEN r
    ELSE UpdateCustomMinimum([r.cpu EXCEPT !.match = "EXACT"], m,
                             x86ModelSubtractCPU(host_model, r.cpu, m))

\* x86UpdateCustom once the map m is loaded
UpdateCustomMap(g, h, m) ==
    IF x86ModelFromCPU(h, m, "REQUIRE") = NoModel
    THEN Updated(-1, g)
    ELSE UpdateCustomMatch(UpdateCustomLoop(g, x86ModelFromCPU(h, m, "REQUIRE").data, m, 1),
                           x86ModelFromCPU(h, m, "REQUIRE"), m)

x86UpdateCustom(g, h) == UpdateCustomMap(g, h, x86LoadMap)

(***************************************************************************)
(* x86HasFeature.                                                          *)
(***************************************************************************)
\* x86HasFeature once the map m is loaded; the mutant answers 0 for a
\* name that is not in the map
HasFeatureMap_UnknownIsAbsent(d, name, m) ==
    IF x86FeatureFind(m, name) = 0
    THEN 0
    ELSE IF x86DataIsSubset(d, m.features[x86FeatureFind(m, name)].data) THEN 1 ELSE 0

HasFeatureMap(d, name, m) ==
    IF x86FeatureFind(m, name) = 0
    THEN -1
    ELSE IF x86DataIsSubset(d, m.features[x86FeatureFind(m, name)].data) THEN 1 ELSE 0

x86HasFeature(d, name) == HasFeatureMap(d, name, x86LoadMap)

(***************************************************************************)
(* x86Compute.                                                             *)
(***************************************************************************)
Computed(r, msg, guestData) == [ret |-> r, message |-> msg, guest |-> guestData]

\* the arch check: found
ArchFound(c) == \E i \in 1..Len(archs) : archs[i] = c.arch

\* the vendor check that ignores a host without vendor
VendorMismatch_HostVendorOnly(h, c) ==
    c.vendor # NULL /\ h.vendor # NULL /\ c.vendor # h.vendor

\* the vendor check
VendorMismatch(h, c) ==
    c.vendor # NULL /\ (h.vendor = NULL \/ c.vendor # h.vendor)

\* the forbid check that looks at the basic leaves only
Forbidden_BasicOnly(cpu_forbid, host_model) ==
    [x86DataIntersect(cpu_forbid.data, host_model.data) EXCEPT !.extended = <<>>]

\* cpu_forbid->data after the intersection with the host's
Forbidden(cpu_forbid, host_model) ==
    x86DataIntersect(cpu_forbid.data, host_model.data)

\* the normalization that forgets the disabled features
NormalizeRequire_ForceOptionalOnly(cpu_require, cpu_force, cpu_optional, cpu_disable) ==
    [cpu_require EXCEPT !.data =
        x86DataSubtract(x86DataSubtract(@, cpu_force.data), cpu_optional.data)]

\* cpu_require after the features explicitly forced, made optional or
\* disabled are removed from it
NormalizeRequire(cpu_require, cpu_force, cpu_optional, cpu_disable) ==
    [cpu_require EXCEPT !.data =
        x86DataSubtract(
            x86DataSubtract(x86DataSubtract(@, cpu_force.data), cpu_optional.data),
            cpu_disable.data)]

\* diff->data
Diff(host_model, cpu_optional, cpu_require, cpu_disable, cpu_force) ==
    x86DataSubtract(
        x86DataSubtract(
            x86DataSubtract(
                x86DataSubtract(x86ModelCopy(host_model).data, cpu_optional.data),
                cpu_require.data),
            cpu_disable.data),
        cpu_force.data)

\* the strict check that forgets the type of the cpu
StrictMismatch_AnyType(c, r) == r = "SUPERSET" /\ c.match = "STRICT"

\* the strict check
StrictMismatch(c, r) == r = "SUPERSET" /\ c.type = "GUEST" /\ c.match = "STRICT"

\* guest data that drops the extra host features whatever the match is
GuestModelData_AlwaysExact(c, host_model, diff, cpu_force, cpu_disable) ==
    x86DataSubtract(
        x86DataAdd(x86DataSubtract(x86ModelCopy(host_model).data, diff), cpu_force.data),
        cpu_disable.data)

\* guest_model->data
\* the guest data without the last subtraction, of the disabled features
GuestModelData_KeepDisabled(c, host_model, diff, cpu_force, cpu_disable) ==
    x86DataAdd(IF c.type = "GUEST" /\ c.match = "EXACT"
               THEN x86DataSubtract(x86ModelCopy(host_model).data, diff)
               ELSE x86ModelCopy(host_model).data,
               cpu_force.data)

GuestModelData(c, host_model, diff, cpu_force, cpu_disable) ==
    LET start == x86ModelCopy(host_model).data
        exact == IF c.type = "GUEST" /\ c.match = "EXACT"
                 THEN x86DataSubtract(start, diff)
                 ELSE start
    IN  x86DataSubtract(x86DataAdd(exact, cpu_force.data), cpu_disable.data)

\* ret before the strict check, diff being diff->data
Classification(diff) == IF x86DataIsEmpty(diff) THEN "IDENTICAL" ELSE "SUPERSET"

\* a strict check made after the guest data is handed back
Classify_GuestBeforeStrict(c, wantGuest, host_model, diff, cpu_force, cpu_disable) ==
    Computed(IF StrictMismatch(c, Classification(diff))
             THEN "INCOMPATIBLE" ELSE Classification(diff),
             IF StrictMismatch(c, Classification(diff)) THEN "strict" ELSE "none",
             IF wantGuest
             THEN x86DataCopy(GuestModelData(c, host_model, diff, cpu_force, cpu_disable))
             ELSE NoData)

\* x86Compute from the strict check on, diff being diff->data
Classify(c, wantGuest, host_model, diff, cpu_force, cpu_disable) ==
    IF StrictMismatch(c, Classification(diff))
    THEN Computed("INCOMPATIBLE", "strict", NoData)
    ELSE Computed(Classification(diff), "none",
                  IF wantGuest
                  THEN x86DataCopy(GuestModelData(c, host_model, diff, cpu_force,
                                                  cpu_disable))
                  ELSE NoData)

\* x86Compute from ret = VIR_CPU_COMPARE_IDENTICAL on
AfterRequire(c, wantGuest, host_model, cpu_force, cpu_require, cpu_optional, cpu_disable) ==
    Classify(c, wantGuest, host_model,
             Diff(host_model, cpu_optional, cpu_require, cpu_disable, cpu_force),
             cpu_force, cpu_disable)

\* x86Compute from the require check on, cpu_require being normalized
RequireCheck(c, wantGuest, host_model, cpu_force, cpu_require, cpu_optional, cpu_disable) ==
    IF x86ModelCompare(host_model, cpu_require) \in {"SUBSET", "UNRELATED"}
    THEN Computed("INCOMPATIBLE", "required", NoData)
    ELSE AfterRequire(c, wantGuest, host_model, cpu_force, cpu_require, cpu_optional,
                      cpu_disable)

\* x86Compute once the six models are built (NoModel: the call failed)
ForbidCheck(c, wantGuest, host_model, cpu_force, cpu_require, cpu_optional, cpu_disable, cpu_forbid) ==
    IF NoModel \in {host_model, cpu_force, cpu_require, cpu_optional, cpu_disable,
                    cpu_forbid}
    THEN Computed("ERROR", "none", NoData)
    ELSE IF ~x86DataIsEmpty(Forbidden(cpu_forbid, host_model))
    THEN Computed("INCOMPATIBLE", "forbidden", NoData)
    ELSE RequireCheck(c, wantGuest, host_model, cpu_force,
                      NormalizeRequire(cpu_require, cpu_force, cpu_optional, cpu_disable),
                      cpu_optional, cpu_disable)

\* x86Compute once the map m is loaded
BuildModels(h, c, wantGuest, m) ==
    ForbidCheck(c, wantGuest,
                x86ModelFromCPU(h, m, "REQUIRE"),
                x86ModelFromCPU(c, m, "FORCE"),
                x86ModelFromCPU(c, m, "REQUIRE"),
                x86ModelFromCPU(c, m, "OPTIONAL"),
                x86ModelFromCPU(c, m, "DISABLE"),
                x86ModelFromCPU(c, m, "FORBID"))

\* wantGuest: guest != NULL.  The guest field is what *guest is set to,
\* NoData when it is left alone.
x86Compute(h, c, wantGuest) ==
    IF c.arch # "none" /\ ~ArchFound(c)
    THEN Computed("INCOMPATIBLE", "arch", NoData)
    ELSE IF VendorMismatch(h, c)
    THEN Computed("INCOMPATIBLE", "vendor", NoData)
    ELSE BuildModels(h, c, wantGuest, x86LoadMap)

(***************************************************************************)
(* The data in place.  The operators above return the data a function      *)
(* leaves; the ones below keep the statements that write a struct          *)
(* cpuX86Data as statements on a heap: the map as loaded, the data the      *)
(* caller passed, and the objects the functions allocate, one per local    *)
(* variable.  An operand is the address of a struct cpuX86Data:            *)
(* <<"input">> the caller's data, <<"model", i>> and <<"feature", i>> the  *)
(* data of the i-th model and feature of the map, <<"local", n>> the       *)
(* object allocated for the variable n, <<"var", n>> what n points to;     *)
(* <<"vendor", i>> is the leaf of the i-th vendor of the map.              *)
(***************************************************************************)
LocalNames ==
    {"copy", "modelData", "cpuData", "features", "model", "host_model", "cpu_force",
     "cpu_require", "cpu_optional", "cpu_disable", "cpu_forbid", "diff", "guest_model",
     "guestData", "base_model", "data_forced", "data_required", "data_optional",
     "data_disabled", "data_forbidden", "data_vendor"}

Nil == <<"null">>
Var(name) == <<"var", name>>

\* the heap an operation starts with once the map m is loaded, d being the
\* data it is given; cpuModel and failed are the cpuModel of x86Decode and
\* whether a function left by its error path
Heap(m, d) ==
    [map |-> m, input |-> d, local |-> [n \in LocalNames |-> EmptyData],
     ptr |-> [n \in LocalNames |-> Nil], cpuModel |-> NoCPU, failed |-> FALSE]

\* the address an operand stands for
Resolve(st, x) == IF x[1] = "var" THEN st.ptr[x[2]] ELSE x

\* *p
Deref(st, p) ==
    IF p[1] = "input" THEN st.input
    ELSE IF p[1] = "model" THEN st.map.models[p[2]].data
    ELSE IF p[1] = "feature" THEN st.map.features[p[2]].data
    ELSE IF p[1] = "vendor" THEN st.map.vendors[p[2]].cpuid
    ELSE st.local[p[2]]

\* *p = d
Assign(st, p, d) ==
    IF p[1] = "input" THEN [st EXCEPT !.input = d]
    ELSE IF p[1] = "model" THEN [st EXCEPT !.map.models[p[2]].data = d]
    ELSE IF p[1] = "feature" THEN [st EXCEPT !.map.features[p[2]].data = d]
    ELSE [st EXCEPT !.local[p[2]] = d]

\* n = p
Bind(st, n, p) == [st EXCEPT !.ptr[n] = p]

Ins(op, dst, src) == [op |-> op, dst |-> dst, src |-> src]

\* what a statement that writes *dst in place leaves there, d being *dst
Written(st, ins, d) ==
    IF ins.op = "add" THEN x86DataAdd(d, Deref(st, Resolve(st, ins.src)))
    ELSE IF ins.op = "subtract" THEN x86DataSubtract(d, Deref(st, Resolve(st, ins.src)))
    ELSE IF ins.op = "intersect" THEN x86DataIntersect(d, Deref(st, Resolve(st, ins.src)))
    ELSE IF ins.op = "addcpuid" THEN x86DataAddCpuid(d, Deref(st, ins.src))
    ELSE IF ins.op = "tovendor" THEN x86DataToVendor(d, st.map).data
    ELSE x86DataToCPUFeatures([features |-> <<>>], "REQUIRE", d, st.map).data

\* one statement.  copy: dst = x86DataCopy(src); new: VIR_ALLOC(dst);
\* assign: dst = src, of pointers; the others write *dst: x86DataAdd,
\* x86DataSubtract, x86DataIntersect, x86DataAddCpuid, x86DataToVendor and,
\* for peel, x86DataToCPUFeatures
\* the statements with an x86DataCopy that hands back its argument
Step_CopyIsSamePointer(st, ins) ==
    IF ins.op = "copy" \/ ins.op = "assign"
    THEN Bind(st, ins.dst[2], Resolve(st, ins.src))
    ELSE IF ins.op = "new"
    THEN Assign(Bind(st, ins.dst[2], <<"local", ins.dst[2]>>), <<"local", ins.dst[2]>>,
                EmptyData)
    ELSE Assign(st, Resolve(st, ins.dst), Written(st, ins, Deref(st, Resolve(st, ins.dst))))

Step(st, ins) ==
    IF ins.op = "copy"
    THEN Assign(Bind(st, ins.dst[2], <<"local", ins.dst[2]>>), <<"local", ins.dst[2]>>,
                x86DataCopy(Deref(st, Resolve(st, ins.src))))
    ELSE IF ins.op = "new"
    THEN Assign(Bind(st, ins.dst[2], <<"local", ins.dst[2]>>), <<"local", ins.dst[2]>>,
                EmptyData)
    ELSE IF ins.op = "assign"
    THEN Bind(st, ins.dst[2], Resolve(st, ins.src))
    ELSE Assign(st, Resolve(st, ins.dst), Written(st, ins, Deref(st, Resolve(st, ins.dst))))

\* the statements of prog from the k-th on, one after the other
RECURSIVE RunFrom(_, _, _)
RunFrom(st, prog, k) ==
    IF k > Len(prog) THEN st ELSE RunFrom(Step(st, prog[k]), prog, k + 1)

Run(st, prog) == RunFrom(st, prog, 1)

\* the function left by its error path
Fail(st) == [st EXCEPT !.failed = TRUE]

\* lines 868-887: the for loop of x86ModelFromCPU from feature i on, the
\* model being the one the variable n points to
RECURSIVE ModelFromCPUFeaturesInPlace(_, _, _, _, _)
ModelFromCPUFeaturesInPlace(st, c, policy, n, i) ==
    IF i > Len(c.features)
    THEN st
    ELSE IF c.type = "GUEST" /\ c.features[i].policy # policy
    THEN ModelFromCPUFeaturesInPlace(st, c, policy, n, i + 1)
    ELSE IF x86FeatureFind(st.map, c.features[i].name) = 0
    THEN Fail(Bind(st, n, Nil))
    ELSE ModelFromCPUFeaturesInPlace(
            Step(st, Ins("add", Var(n),
                         <<"feature", x86FeatureFind(st.map, c.features[i].name)>>)),
            c, policy, n, i + 1)

\* n = x86ModelFromCPU(c, map, policy), n standing for n->data
x86ModelFromCPUInPlace(st, c, policy, n) ==
    IF st.failed
    THEN st
    ELSE IF policy = "REQUIRE"
    THEN IF x86ModelFind(st.map, c.model) = 0
         THEN Fail(Bind(st, n, Nil))
         ELSE ModelFromCPUFeaturesInPlace(
                 Step(st, Ins("copy", Var(n), <<"model", x86ModelFind(st.map, c.model)>>)),
                 c, policy, n, 1)
    ELSE IF c.type = "HOST"
    THEN Step(st, Ins("new", Var(n), Nil))
    ELSE ModelFromCPUFeaturesInPlace(Step(st, Ins("new", Var(n), Nil)), c, policy, n, 1)

\* lines 472-492: x86DataToCPU(data, model, map) for the i-th model
x86DataToCPUInPlace(st, data, i) ==
    Run(st, << Ins("copy", Var("copy"), data),
               Ins("copy", Var("modelData"), <<"model", i>>),
               Ins("tovendor", Var("copy"), Nil),
               Ins("subtract", Var("copy"), Var("modelData")),
               Ins("subtract", Var("modelData"), data),
               Ins("peel", Var("copy"), Nil),
               Ins("peel", Var("modelData"), Nil) >>)

\* lines 1424-1436: cpuModel = cpuCandidate; cpuData = candidate->data
DecodeKeepInPlace(st, i, cpuCandidate) ==
    [Step(st, Ins("assign", Var("cpuData"), <<"model", i>>)) EXCEPT !.cpuModel = cpuCandidate]

\* lines 1377-1439: the while loop of x86Decode from the i-th model on
RECURSIVE DecodeLoopInPlace(_, _, _, _, _, _)

\* the body of the loop once x86DataToCPU returned cpuCandidate
DecodeCandidateInPlace(st, c, data, models, preferred, i, cpuCandidate) ==
    IF VendorSkips(st.map.models[i], cpuCandidate) \/ HostSkips(c, cpuCandidate)
    THEN DecodeLoopInPlace(st, c, data, models, preferred, i + 1)
    ELSE IF IsPreferred(preferred, cpuCandidate.model)
    THEN DecodeKeepInPlace(st, i, HostCandidate(c, cpuCandidate))
    ELSE IF KeepsCandidate(st.cpuModel, HostCandidate(c, cpuCandidate))
    THEN DecodeLoopInPlace(DecodeKeepInPlace(st, i, HostCandidate(c, cpuCandidate)),
                           c, data, models, preferred, i + 1)
    ELSE DecodeLoopInPlace(st, c, data, models, preferred, i + 1)

DecodeLoopInPlace(st, c, data, models, preferred, i) ==
    IF i > Len(st.map.models)
    THEN st
    ELSE IF ~cpuModelIsAllowed(st.map.models[i].name, models)
    THEN IF IsPreferred(preferred, st.map.models[i].name) /\ c.fallback # "ALLOW"
         THEN Fail(st)
         ELSE DecodeLoopInPlace(st, c, data, models, preferred, i + 1)
    ELSE DecodeCandidateInPlace(
            x86DataToCPUInPlace(st, data, i), c, data, models, preferred, i,
            x86DataToCPU(Deref(st, Resolve(st, data)), st.map.models[i], st.map))

\* lines 770-775: the statements of x86DataFromCPUFeatures(cpuModel, map)
DataFromCPUFeaturesInPlace(st) ==
    Run(st, <<Ins("new", Var("features"), Nil)>> \o
            [k \in 1..Len(st.cpuModel.features) |->
                Ins("add", Var("features"),
                    <<"feature", x86FeatureFind(st.map, st.cpuModel.features[k].name)>>)])

\* lines 1447-1456: the block for VIR_CONNECT_BASELINE_CPU_EXPAND_FEATURES
DecodeExpandInPlace(st, flags) ==
    IF st.failed \/ st.cpuModel = NoCPU \/ "EXPAND_FEATURES" \notin flags
    THEN st
    ELSE IF x86DataFromCPUFeatures(st.cpuModel, st.map) = NoData
    THEN Fail(Step(st, Ins("copy", Var("copy"), Var("cpuData"))))
    ELSE Run(DataFromCPUFeaturesInPlace(Step(st, Ins("copy", Var("copy"), Var("cpuData")))),
             << Ins("subtract", Var("copy"), Var("features")),
                Ins("peel", Var("copy"), Nil) >>)

\* x86Decode(cpu, data, models, nmodels, preferred, flags) on the heap st
x86DecodeInPlace(st, c, data, models, preferred, flags) ==
    IF Deref(st, Resolve(st, data)) = NoData
    THEN Fail(st)
    ELSE DecodeExpandInPlace(DecodeLoopInPlace(st, c, data, models, preferred, 1), flags)

\* the data the variable n points to
Local(st, n) == Deref(st, Resolve(st, Var(n)))

\* lines 1240-1246: the six models of x86Compute
ComputeModelsInPlace(st, h, c) ==
    x86ModelFromCPUInPlace(
        x86ModelFromCPUInPlace(
            x86ModelFromCPUInPlace(
                x86ModelFromCPUInPlace(
                    x86ModelFromCPUInPlace(
                        x86ModelFromCPUInPlace(st, h, "REQUIRE", "host_model"),
                        c, "FORCE", "cpu_force"),
                    c, "REQUIRE", "cpu_require"),
                c, "OPTIONAL", "cpu_optional"),
            c, "DISABLE", "cpu_disable"),
        c, "FORBID", "cpu_forbid")

\* lines 1293-1313: the block if (guest != NULL)
ComputeGuestInPlace(st, c, wantGuest) ==
    IF StrictMismatch(c, Classification(Local(st, "diff"))) \/ ~wantGuest
    THEN st
    ELSE Run(st, <<Ins("copy", Var("guest_model"), Var("host_model"))>> \o
                 (IF c.type = "GUEST" /\ c.match = "EXACT"
                  THEN <<Ins("subtract", Var("guest_model"), Var("diff"))>>
                  ELSE <<>>) \o
                 << Ins("add", Var("guest_model"), Var("cpu_force")),
                    Ins("subtract", Var("guest_model"), Var("cpu_disable")),
                    Ins("copy", Var("guestData"), Var("guest_model")) >>)

\* lines 1262-1280: from the comparison of the host with cpu_require on
ComputeDiffInPlace(st, c, wantGuest) ==
    IF x86ModelCompare(Model(NULL, NULL, Local(st, "host_model")),
                       Model(NULL, NULL, Local(st, "cpu_require")))
           \in {"SUBSET", "UNRELATED"}
    THEN Step(st, Ins("subtract", Var("cpu_require"), Var("host_model")))
    ELSE ComputeGuestInPlace(
            Run(st, << Ins("copy", Var("diff"), Var("host_model")),
                       Ins("subtract", Var("diff"), Var("cpu_optional")),
                       Ins("subtract", Var("diff"), Var("cpu_require")),
                       Ins("subtract", Var("diff"), Var("cpu_disable")),
                       Ins("subtract", Var("diff"), Var("cpu_force")) >>),
            c, wantGuest)

\* lines 1248-1261: the forbid check and the normalization of cpu_require
ComputeRequireInPlace(st, c, wantGuest) ==
    IF ~x86DataIsEmpty(Local(st, "cpu_forbid"))
    THEN st
    ELSE ComputeDiffInPlace(
            Run(st, << Ins("subtract", Var("cpu_require"), Var("cpu_force")),
                       Ins("subtract", Var("cpu_require"), Var("cpu_optional")),
                       Ins("subtract", Var("cpu_require"), Var("cpu_disable")) >>),
            c, wantGuest)

\* x86Compute from the six models on
ComputeForbidInPlace(st, c, wantGuest) ==
    IF st.failed
    THEN st
    ELSE ComputeRequireInPlace(Step(st, Ins("intersect", Var("cpu_forbid"),
                                           Var("host_model"))),
                               c, wantGuest)

\* x86Compute(host, cpu, guest, message) on the heap st
x86ComputeInPlace(st, h, c, wantGuest) ==
    IF (c.arch # "none" /\ ~ArchFound(c)) \/ VendorMismatch(h, c)
    THEN st
    ELSE ComputeForbidInPlace(ComputeModelsInPlace(st, h, c), c, wantGuest)

\* lines 1759-1797: the loop of x86Baseline from cpus[i] on, b being the
\* vendor found and the error reported so far
RECURSIVE BaselineLoopInPlace(_, _, _, _)

\* one turn of the loop once model is built, b being what the turn finds
BaselineTurnInPlace(st, cpus, i, b) ==
    IF b.error # "none"
    THEN Fail(st)
    ELSE BaselineLoopInPlace(Step(st, Ins("intersect", Var("base_model"), Var("model"))),
                             cpus, i + 1, b)

BaselineLoopInPlace(st, cpus, i, b) ==
    IF b.error # "none"
    THEN Fail(st)
    ELSE IF i > Len(cpus)
    THEN st
    ELSE BaselineTurnInPlace(
            x86ModelFromCPUInPlace(st, cpus[i], "REQUIRE", "model"), cpus, i,
            BaselineStep(b, cpus[i], st.map, x86ModelFromCPU(cpus[i], st.map, "REQUIRE")))

\* lines 1799-1809: from the end of the loop on, b being how it ended
BaselineFinishInPlace(st, cpus, models, flags, b) ==
    IF st.failed \/ x86DataIsEmpty(Local(st, "base_model"))
    THEN Fail(st)
    ELSE x86DecodeInPlace(
            IF b.vendor = NULL
            THEN st
            ELSE Step(st, Ins("addcpuid", Var("base_model"),
                              <<"vendor", x86VendorFind(st.map, b.vendor)>>)),
            BaselineCPU(cpus[1]), Var("base_model"), models, NULL, flags)

\* x86Baseline(cpus, ncpus, models, nmodels, flags) on the heap st
x86BaselineInPlace(st, cpus, models, flags) ==
    BaselineFinishInPlace(
        BaselineLoopInPlace(x86ModelFromCPUInPlace(st, cpus[1], "REQUIRE", "base_model"),
                            cpus, 2, BaselineFirst(cpus[1], st.map)),
        cpus, models, flags, BaselineLoop(cpus, st.map, 2, BaselineFirst(cpus[1], st.map)))

\* lines 910-922: the for loop of x86ModelSubtractCPU from feature i on
RECURSIVE ModelSubtractCPULoopInPlace(_, _, _, _)
ModelSubtractCPULoopInPlace(st, n, c, i) ==
    IF i > Len(c.features)
    THEN st
    ELSE IF x86FeatureFind(st.map, c.features[i].name) = 0
    THEN Fail(st)
    ELSE ModelSubtractCPULoopInPlace(
            Step(st, Ins("subtract", Var(n),
                         <<"feature", x86FeatureFind(st.map, c.features[i].name)>>)),
            n, c, i + 1)

\* x86ModelSubtractCPU(n, c, map)
x86ModelSubtractCPUInPlace(st, n, c) ==
    IF x86ModelFind(st.map, c.model) = 0
    THEN Fail(st)
    ELSE ModelSubtractCPULoopInPlace(
            Step(st, Ins("subtract", Var(n), <<"model", x86ModelFind(st.map, c.model)>>)),
            n, c, 1)

\* lines 1861-1867, st being the heap x86ModelSubtractCPU left
UpdateCustomPeelInPlace(st) ==
    IF st.failed THEN st ELSE Step(st, Ins("peel", Var("host_model"), Nil))

\* lines 1845-1867: x86UpdateCustom from host_model on; the loop over the
\* features of the guest writes no data
UpdateCustomMatchInPlace(st, g) ==
    IF st.failed
    THEN st
    ELSE IF \/ UpdateCustomLoop(g, Local(st, "host_model"), st.map, 1).ret < 0
            \/ UpdateCustomLoop(g, Local(st, "host_model"), st.map, 1).cpu.match # "MINIMUM"
    THEN st
    ELSE UpdateCustomPeelInPlace(
            x86ModelSubtractCPUInPlace(
                st, "host_model", UpdateCustomLoop(g, Local(st, "host_model"), st.map, 1).cpu))

\* lines 1938-1956: x86HasFeature(data, name) has no statement that writes
\* a struct cpuX86Data; it fails for a name that is not in the map
x86HasFeatureInPlace(st, name) ==
    IF x86FeatureFind(st.map, name) = 0 THEN Fail(st) ELSE st

\* x86UpdateCustom(guest, host) on the heap st
x86UpdateCustomInPlace(st, g, h) ==
    UpdateCustomMatchInPlace(x86ModelFromCPUInPlace(st, h, "REQUIRE", "host_model"), g)

\* lines 1535-1568: data_forced, ..., data_forbidden, each the data of the
\* model x86EncodePolicy builds
EncodeWantedInPlace(st, c, want, output, policy, n) ==
    IF output \in want THEN x86ModelFromCPUInPlace(st, c, policy, n) ELSE st

\* lines 1570-1584: the block if (vendor)
EncodeVendorInPlace(st, c, want) ==
    IF st.failed \/ "vendor" \notin want \/ c.vendor = NULL
    THEN st
    ELSE IF x86VendorFind(st.map, c.vendor) = 0
    THEN Fail(st)
    ELSE Run(st, << Ins("new", Var("data_vendor"), Nil),
                    Ins("addcpuid", Var("data_vendor"),
                        <<"vendor", x86VendorFind(st.map, c.vendor)>>) >>)

\* x86Encode(arch, cpu, forced, ..., vendor) on the heap st
x86EncodeInPlace(st, c, want) ==
    EncodeVendorInPlace(
        EncodeWantedInPlace(
            EncodeWantedInPlace(
                EncodeWantedInPlace(
                    EncodeWantedInPlace(
                        EncodeWantedInPlace(st, c, want, "forced", "FORCE", "data_forced"),
                        c, want, "required", "REQUIRE", "data_required"),
                    c, want, "optional", "OPTIONAL", "data_optional"),
                c, want, "disabled", "DISABLE", "data_disabled"),
            c, want, "forbidden", "FORBID", "data_forbidden"),
        c, want)

(***************************************************************************)
(* What a struct cpuX86Data means: the set of its set bits, each named by  *)
(* the function its position in the array stands for, its register and     *)
(* its position in the register.  A missing leaf has no bit.               *)
(***************************************************************************)
LeafBits(function, c) ==
    {<<function, "eax", b>> : b \in c.eax} \cup {<<function, "ebx", b>> : b \in c.ebx}
    \cup {<<function, "ecx", b>> : b \in c.ecx} \cup {<<function, "edx", b>> : b \in c.edx}

Bits(data) ==
    UNION {LeafBits(i - 1, data.basic[i]) : i \in 1..Len(data.basic)}
    \cup UNION {LeafBits(CPUX86_EXTENDED + i - 1, data.extended[i]) :
                   i \in 1..Len(data.extended)}

(***************************************************************************)
(* Values of the variables a specification does not use.                   *)
(***************************************************************************)
NoCallback == [elem |-> [kind |-> "none"], outcome |-> "none", ret |-> 0, count |-> 0]

LoadIdle == map = EmptyMap /\ last = NoCallback
CompareIdle == model1 = NoModel /\ model2 = NoModel /\ result = "none"
ComputeIdle == /\ host = NoCPU /\ cpu = NoCPU /\ pc = "idle"
               /\ ret = "none" /\ message = "none" /\ guest = NoData
CallIdle == /\ xml = <<>> /\ input = NoData /\ allowlist = NULL
            /\ wanted = NULL /\ options = {} /\ cpuArray = <<>>

(***************************************************************************)
(* SpecCompare: x86ModelCompare on every pair of models whose data is      *)
(* drawn from CompareData.                                                 *)
(***************************************************************************)
\* register contents the leaves are drawn from: eax, ebx, ecx, edx
CompareRegs ==
    { <<{}, {}, {}, {}>>, <<{}, {}, {}, {0}>>, <<{1}, {}, {}, {0}>>, <<{}, {3}, {5}, {}>> }

\* the arrays of length n whose leaf at position i has function base + i
RECURSIVE LeafArrays(_, _)
LeafArrays(base, n) ==
    IF n = 0
    THEN {<<>>}
    ELSE {Append(a, Cpuid(base + n - 1, r[1], r[2], r[3], r[4])) :
             a \in LeafArrays(base, n - 1), r \in CompareRegs}

CompareData ==
    {[basic |-> b, extended |-> e] :
        b \in UNION {LeafArrays(0, n) : n \in 0..MaxLen},
        e \in LeafArrays(CPUX86_EXTENDED, 0) \cup LeafArrays(CPUX86_EXTENDED, 1)}

InitCompare ==
    /\ LoadIdle /\ ComputeIdle /\ CallIdle
    /\ result = "none"
    /\ \E d1 \in CompareData, d2 \in CompareData :
          /\ model1 = Model("model1", NULL, d1)
          /\ model2 = Model("model2", NULL, d2)

ModelCompare ==
    /\ result = "none"
    /\ result' = x86ModelCompare(model1, model2)
    /\ UNCHANGED <<map, last, model1, model2, host, cpu, pc, ret, message, guest, callVars>>

NextCompare == ModelCompare

SpecCompare == InitCompare /\ [][NextCompare]_vars

(***************************************************************************)
(* C7: x86ModelCompare(A, B) is EQUAL iff A and B have the same bits,      *)
(* SUBSET iff A's bits are a proper subset of B's, SUPERSET iff they are a *)
(* proper superset, UNRELATED iff each has a bit the other lacks; hence    *)
(* compare(A, A) is EQUAL, compare(A, B) is UNRELATED iff compare(B, A)    *)
(* is, and SUBSET iff compare(B, A) is SUPERSET.                           *)
(***************************************************************************)
C7_CompareIsSetOrder ==
    result # "none" =>
        LET A == Bits(model1.data)
            B == Bits(model2.data)
            back == x86ModelCompare(model2, model1)
        IN  /\ (result = "EQUAL") <=> (A = B)
            /\ (result = "SUBSET") <=> (A \subseteq B /\ A # B)
            /\ (result = "SUPERSET") <=> (B \subseteq A /\ A # B)
            /\ (result = "UNRELATED") <=> (A \ B # {} /\ B \ A # {})
            /\ (model1.data = model2.data) => (result = "EQUAL")
            /\ (result = "UNRELATED") <=> (back = "UNRELATED")
            /\ (result = "SUBSET") <=> (back = "SUPERSET")

\* both loops have run, and the two models differ inside one leaf and across leaves
C7_Witness ==
    /\ result = "UNRELATED"
    /\ Len(model1.data.basic) = 2 /\ Len(model2.data.basic) = 1
    /\ model1.data.basic[1].edx = {0} /\ model1.data.basic[1].eax = {}
    /\ model2.data.basic[1].eax = {1}
    /\ model2.data.extended # <<>>

(***************************************************************************)
(* SpecLoad: the map loader receives up to MaxLoads elements, each drawn   *)
(* from the elements below, in any order and with repetitions.             *)
(***************************************************************************)
\* "GenuineIntel" and "AuthenticAMD" as bytes, and a string that is too short
GenuineIntel == <<71, 101, 110, 117, 105, 110, 101, 73, 110, 116, 101, 108>>
AuthenticAMD == <<65, 117, 116, 104, 101, 110, 116, 105, 99, 65, 77, 68>>
ShortString == <<73, 110, 116, 101, 108>>

VendorElement(name, string) == [kind |-> "VENDOR", name |-> name, string |-> string]
FeatureElement(name, cpuids) == [kind |-> "FEATURE", name |-> name, cpuids |-> cpuids]
ModelElement(name, hasAncestor, ancestor, hasVendor, vendor, features) ==
    [kind |-> "MODEL", name |-> name, hasAncestor |-> hasAncestor,
     ancestor |-> ancestor, hasVendor |-> hasVendor, vendor |-> vendor,
     features |-> features]

\* <cpuid function=fun edx=edx/>: the other registers are absent
EdxNode(fun, edx) == CpuidNode(0, fun, -1, {}, -1, {}, -1, {}, 0, edx)

VendorElements ==
    { VendorElement("Intel", GenuineIntel), VendorElement("AMD", AuthenticAMD),
      VendorElement("Intel", ShortString), VendorElement("AMD", NoString),
      VendorElement(NULL, GenuineIntel) }

FeatureElements ==
    { FeatureElement("fpu", <<EdxNode(1, {0})>>),
      FeatureElement("lm", <<EdxNode(CPUX86_EXTENDED + 1, {29})>>),
      FeatureElement("sse2", <<EdxNode(1, {26}),
                               CpuidNode(0, 1, -1, {}, -1, {}, -2, {}, -1, {})>>),
      FeatureElement("lm", <<CpuidNode(-1, 0, -1, {}, -1, {}, -1, {}, 0, {29})>>),
      FeatureElement(NULL, <<>>) }

ModelElements ==
    { ModelElement("base", FALSE, NULL, TRUE, "Intel", <<"fpu">>),
      ModelElement("base", FALSE, NULL, FALSE, NULL, <<"lm">>),
      ModelElement("core2", TRUE, "base", FALSE, NULL, <<"lm", "fpu">>),
      ModelElement("core2", TRUE, "base", TRUE, "AMD", <<>>),
      ModelElement(NULL, FALSE, NULL, FALSE, NULL, <<>>),
      ModelElement("core2", TRUE, NULL, FALSE, NULL, <<>>),
      ModelElement("core2", FALSE, NULL, TRUE, NULL, <<>>),
      ModelElement("core2", FALSE, NULL, FALSE, NULL, <<"fpu", NULL>>) }

InitLoad ==
    /\ CompareIdle /\ ComputeIdle /\ CallIdle
    /\ map = EmptyMap
    /\ last = NoCallback

\* x86MapLoadCallback(element, ctxt, map): one callback of cpuMapLoad,
\* which goes on to the next element unless the callback returned < 0
Callback(elem) ==
    /\ last.count < MaxLoads
    /\ last.ret >= 0
    /\ LET r == x86MapLoadCallback(elem, map)
       IN  /\ map' = r.map
           /\ last' = [elem |-> elem, outcome |-> r.outcome, ret |-> r.ret,
                       count |-> last.count + 1]
    /\ UNCHANGED <<model1, model2, result, host, cpu, pc, ret, message, guest, callVars>>

VendorLoad == \E elem \in VendorElements : Callback(elem)
FeatureLoad == \E elem \in FeatureElements : Callback(elem)
ModelLoad == \E elem \in ModelElements : Callback(elem)

NextLoad == VendorLoad \/ FeatureLoad \/ ModelLoad

SpecLoad == InitLoad /\ [][NextLoad]_vars

Names(list) == {list[i].name : i \in 1..Len(list)}
UniqueNames(list) == \A i, j \in 1..Len(list) : list[i].name = list[j].name => i = j

(***************************************************************************)
(* C8: after any sequence of VENDOR, FEATURE and MODEL callbacks no two    *)
(* entries of the same collection share a name: an element whose name its  *)
(* collection already holds is rejected with DuplicateName and not added.  *)
(***************************************************************************)
C8_UniqueNames ==
    /\ UniqueNames(map.vendors)
    /\ UniqueNames(map.features)
    /\ UniqueNames(map.models)

\* the part of C8 the vendor and feature loaders do keep
C8_VendorsFeaturesUnique == UniqueNames(map.vendors) /\ UniqueNames(map.features)

(***************************************************************************)
(* C9: every model the loader adds has the bits of its named ancestor (if  *)
(* it names one) and of every feature it references and no other, and the  *)
(* vendor it declares or, if it declares none, its ancestor's; a MODEL     *)
(* element naming an ancestor, vendor or feature that is not loaded yet is *)
(* not added.  The ancestor a name stands for is the model x86ModelFind    *)
(* finds under it when the element is loaded.                              *)
(***************************************************************************)
RefsLoaded(elem, m) ==
    /\ elem.hasAncestor => elem.ancestor \in Names(m.models)
    /\ elem.hasVendor => elem.vendor \in Names(m.vendors)
    /\ \A k \in 1..Len(elem.features) : elem.features[k] \in Names(m.features)

FeatureBits(m, name) ==
    UNION {Bits(m.features[i].data) : i \in {i \in 1..Len(m.features) :
                                                m.features[i].name = name}}

C9_ModelIsUnionStep ==
    (last'.elem.kind = "MODEL" /\ map'.models # map.models) =>
        LET elem == last'.elem
            added == Head(map'.models)
            ancestor == map.models[x86ModelFind(map, elem.ancestor)]
        IN  /\ RefsLoaded(elem, map)
            /\ map'.models = <<added>> \o map.models
            /\ added.name = elem.name
            /\ Bits(added.data) =
                  (IF elem.hasAncestor THEN Bits(ancestor.data) ELSE {})
                  \cup UNION {FeatureBits(map, elem.features[k]) :
                                 k \in 1..Len(elem.features)}
            /\ added.vendor = IF elem.hasVendor THEN elem.vendor
                              ELSE IF elem.hasAncestor THEN ancestor.vendor
                              ELSE NULL

C9_ModelIsUnion == [][C9_ModelIsUnionStep]_vars

\* a model was added that inherits data and vendor and adds a feature
C9_Witness ==
    /\ last.elem.kind = "MODEL" /\ last.outcome = "added"
    /\ last.elem.hasAncestor /\ ~last.elem.hasVendor
    /\ Len(last.elem.features) = 2
    /\ Head(map.models).vendor = "Intel"
    /\ Len(Head(map.models).data.extended) = 2

(***************************************************************************)
(* C10: when the loader rejects a VENDOR, FEATURE or MODEL element, the    *)
(* three collections are left exactly as they were before the callback.    *)
(***************************************************************************)
C10_RejectedStep == (last'.outcome # "added") => (map' = map)

C10_RejectLeavesMap == [][C10_RejectedStep]_vars

\* a feature whose second cpuid node is malformed was rejected after its
\* first node had been added to its data, with a catalog already loaded
C10_Witness ==
    /\ last.outcome = "MalformedCPUID" /\ Len(last.elem.cpuids) = 2
    /\ map.vendors # <<>> /\ map.features # <<>> /\ map.models # <<>>

(***************************************************************************)
(* C11 as stated: the callback returns a failure result for every element  *)
(* it rejects and success only for the elements it added to the catalog.   *)
(***************************************************************************)
C11_RejectReturnsFailure ==
    last.count > 0 => ((last.ret = 0) <=> (last.outcome = "added"))

(***************************************************************************)
(* C11 amended: the callback returns success for every element, added or   *)
(* rejected; a rejected element is discarded, the catalog is as it was,    *)
(* and cpuMapLoad goes on to the elements after it.                        *)
(***************************************************************************)
C11_RejectReturnsSuccess == last.count > 0 => last.ret = 0

\* an element was added although fewer entries than callbacks are in the
\* catalog: one before it was rejected, and the loading went on
C11_Witness ==
    /\ last.outcome = "added" /\ last.ret = 0
    /\ Len(map.vendors) + Len(map.features) + Len(map.models) < last.count

(***************************************************************************)
(* SpecCompute: x86Compare and x86GuestData on every pair of a host and a  *)
(* cpu definition drawn from the sets below, against the catalog cpu_map.  *)
(***************************************************************************)
FeatureNames == <<"sse2", "lm", "nofeature">>
Policies == {"FORCE", "REQUIRE", "OPTIONAL", "DISABLE", "FORBID"}

\* the feature lists of at most n features that name each of FeatureNames
\* from the k-th on at most once, in that order, with a policy of ps
RECURSIVE FeatureLists(_, _, _)
FeatureLists(k, n, ps) ==
    IF n = 0
    THEN {<<>>}
    ELSE {<<>>} \cup
         UNION {{<<CPUFeature(FeatureNames[j], p)>> \o rest :
                    p \in ps, rest \in FeatureLists(j + 1, n - 1, ps)} :
                j \in k..Len(FeatureNames)}

HostDefs ==
    {CPUDef("x86_64", "HOST", "EXACT", model, vendor, features) :
        model \in {"base", "core2", "x86_64", "nomodel"},
        vendor \in {NULL, "Intel"},
        features \in {<<>>, <<CPUFeature("lm", "unset")>>}}

CPUDefs ==
    UNION {{CPUDef(arch, type, match, model, vendor, features) :
               arch \in {"none", "i686", "x86_64", "ppc64"},
               match \in {"MINIMUM", "EXACT", "STRICT"},
               model \in {"base", "core2", "nomodel"},
               vendor \in {NULL, "Intel", "AMD"},
               features \in FeatureLists(1, MaxFeatures,
                                         IF type = "GUEST" THEN Policies ELSE {"unset"})} :
           type \in {"HOST", "GUEST"}}

InitCompute ==
    /\ LoadIdle /\ CompareIdle /\ CallIdle
    /\ host \in HostDefs
    /\ cpu \in CPUDefs
    /\ pc = "start"
    /\ ret = "none" /\ message = "none" /\ guest = NoData

Compute(wantGuest, done) ==
    /\ pc = "start"
    /\ LET r == x86Compute(host, cpu, wantGuest)
       IN  /\ ret' = r.ret
           /\ message' = r.message
           /\ guest' = IF r.guest # NoData THEN r.guest ELSE guest
    /\ pc' = done
    /\ UNCHANGED <<map, last, model1, model2, result, host, cpu, callVars>>

\* x86Compute(host, cpu, NULL, NULL)
x86Compare == Compute(FALSE, "compared")

\* x86Compute(host, guest, data, message)
x86GuestData == Compute(TRUE, "guestdata")

NextCompute == x86Compare \/ x86GuestData

SpecCompute == InitCompute /\ [][NextCompute]_vars

(***************************************************************************)
(* The claims about x86Compute are stated on sets of bits, from the names  *)
(* the two definitions carry and the catalog.                              *)
(***************************************************************************)
ModelBits(name) ==
    UNION {Bits(x86LoadMap.models[i].data) :
              i \in {i \in 1..Len(x86LoadMap.models) : x86LoadMap.models[i].name = name}}

\* the bits of the listed features of c whose policy is in ps
ListedBits(c, ps) ==
    UNION {FeatureBits(x86LoadMap, c.features[i].name) :
              i \in {i \in 1..Len(c.features) : c.features[i].policy \in ps}}

AnyPolicy == Policies \cup {"unset"}

\* what x86ModelFromCPU(c, map, policy) stands for: a HOST definition has
\* no per-feature policy, all its features belong to its REQUIRE model
PolicyBits(c, policy) ==
    IF c.type = "HOST"
    THEN IF policy = "REQUIRE" THEN ModelBits(c.model) \cup ListedBits(c, AnyPolicy) ELSE {}
    ELSE (IF policy = "REQUIRE" THEN ModelBits(c.model) ELSE {})
         \cup ListedBits(c, {policy})

HostBits == PolicyBits(host, "REQUIRE")

NormalizedRequire ==
    PolicyBits(cpu, "REQUIRE")
    \ (PolicyBits(cpu, "FORCE") \cup PolicyBits(cpu, "OPTIONAL") \cup PolicyBits(cpu, "DISABLE"))

\* the normalized require set as C1 words it, whatever the type of the cpu
NormalizedRequireByPolicy ==
    (ModelBits(cpu.model) \cup ListedBits(cpu, {"REQUIRE"}))
    \ ListedBits(cpu, {"FORCE", "OPTIONAL", "DISABLE"})

DiffBits ==
    HostBits \ (PolicyBits(cpu, "OPTIONAL") \cup NormalizedRequire
                \cup PolicyBits(cpu, "DISABLE") \cup PolicyBits(cpu, "FORCE"))

ArchPasses == cpu.arch \in {"none", "i686", "x86_64"}
VendorPasses == cpu.vendor = NULL \/ (host.vendor # NULL /\ host.vendor = cpu.vendor)
ModelsResolve ==
    /\ host.model \in Names(x86LoadMap.models)
    /\ cpu.model \in Names(x86LoadMap.models)
    /\ \A i \in 1..Len(host.features) : host.features[i].name \in Names(x86LoadMap.features)
    /\ \A i \in 1..Len(cpu.features) : cpu.features[i].name \in Names(x86LoadMap.features)
ForbidPasses == ListedBits(cpu, {"FORBID"}) \cap HostBits = {}

\* x86Compute has returned, after the arch and vendor checks passed and
\* all six models were built
Computing == pc # "start" /\ ArchPasses /\ VendorPasses /\ ModelsResolve

(***************************************************************************)
(* C1 as stated: once the arch and vendor checks pass and all models       *)
(* resolve (and the forbid check, made first, passes), the result is       *)
(* INCOMPATIBLE for missing requirements exactly when the cpu's model data *)
(* united with its REQUIRE-policy features, minus its FORCE, OPTIONAL and  *)
(* DISABLE features, is not a subset of the host model's data.             *)
(***************************************************************************)
C1_RequireByPolicy ==
    (Computing /\ ForbidPasses) =>
        ((ret = "INCOMPATIBLE" /\ message = "required")
            <=> ~(NormalizedRequireByPolicy \subseteq HostBits))

(***************************************************************************)
(* C1 amended: the same, the normalized require set being the one above    *)
(* for a GUEST cpu and, for a HOST cpu, its model data united with all its *)
(* listed features, nothing subtracted.  A model-inherited feature that a  *)
(* GUEST cpu forces, disables or makes optional is not demanded.           *)
(***************************************************************************)
C1_RequireSatisfaction ==
    (Computing /\ ForbidPasses) =>
        ((ret = "INCOMPATIBLE" /\ message = "required")
            <=> ~(NormalizedRequire \subseteq HostBits))

\* core2 with sse2 disabled runs on a host without sse2
C1_Witness ==
    /\ pc = "compared" /\ ret = "IDENTICAL"
    /\ cpu.type = "GUEST" /\ cpu.model = "core2"
    /\ cpu.features = <<CPUFeature("sse2", "DISABLE")>>
    /\ host.model = "base" /\ host.features = <<>>

(***************************************************************************)
(* C2: once the arch and vendor checks pass and all models resolve, if the *)
(* FORBID-policy features of the cpu share a bit with the host model's     *)
(* data the result is INCOMPATIBLE, reported as forbidden features, also   *)
(* when the require check would fail.                                      *)
(***************************************************************************)
C2_ForbidCheck ==
    (Computing /\ ~ForbidPasses) => (ret = "INCOMPATIBLE" /\ message = "forbidden")

\* a forbidden feature of the host is reported although a required one is missing
C2_Witness ==
    /\ pc = "compared" /\ message = "forbidden"
    /\ ~(NormalizedRequire \subseteq HostBits)

(***************************************************************************)
(* C3: when the forbid and require checks pass, with diff the host model's *)
(* bits that are in none of the cpu's optional, normalized require,        *)
(* disable and force data: the result is IDENTICAL iff diff is empty; if   *)
(* not, it is INCOMPATIBLE for a GUEST cpu with match STRICT and SUPERSET  *)
(* otherwise.                                                              *)
(***************************************************************************)
C3_Classification ==
    (Computing /\ ForbidPasses /\ NormalizedRequire \subseteq HostBits) =>
        /\ (ret = "IDENTICAL") <=> (DiffBits = {})
        /\ DiffBits # {} =>
              IF cpu.type = "GUEST" /\ cpu.match = "STRICT"
              THEN ret = "INCOMPATIBLE" /\ message = "strict"
              ELSE ret = "SUPERSET"
        /\ ~(cpu.type = "GUEST" /\ cpu.match = "STRICT" /\ ret = "SUPERSET")

\* a HOST cpu with match STRICT on a host with extra features
C3_Witness ==
    /\ pc = "compared" /\ ret = "SUPERSET"
    /\ cpu.type = "HOST" /\ cpu.match = "STRICT"

(***************************************************************************)
(* C4: when guest data is asked for and the result is IDENTICAL or         *)
(* SUPERSET, the data handed back is the host model's (less diff for a     *)
(* GUEST cpu with match EXACT) united with the force data, less the        *)
(* disable data.  For host x86_64 and guest core2, EXACT, no features, it  *)
(* is exactly core2's bits.                                                *)
(***************************************************************************)
C4_GuestData ==
    /\ (pc = "guestdata" /\ ret \in {"IDENTICAL", "SUPERSET"}) =>
          Bits(guest) =
             ((IF cpu.type = "GUEST" /\ cpu.match = "EXACT"
               THEN HostBits \ DiffBits ELSE HostBits)
              \cup PolicyBits(cpu, "FORCE")) \ PolicyBits(cpu, "DISABLE")
    /\ (/\ pc = "guestdata" /\ ArchPasses /\ VendorPasses
        /\ host.model = "x86_64" /\ host.features = <<>>
        /\ cpu.type = "GUEST" /\ cpu.match = "EXACT"
        /\ cpu.model = "core2" /\ cpu.features = <<>>) =>
          (ret = "SUPERSET" /\ Bits(guest) = ModelBits("core2"))

\* a MINIMUM guest keeps the extra host feature and gets the forced one
C4_Witness ==
    /\ pc = "guestdata" /\ ret = "SUPERSET"
    /\ cpu.type = "GUEST" /\ cpu.match = "MINIMUM" /\ cpu.model = "base"
    /\ cpu.features = <<CPUFeature("lm", "FORCE")>>
    /\ host.model = "core2" /\ host.features = <<>>

(***************************************************************************)
(* C5: x86GuestData hands guest data back exactly when it returns          *)
(* IDENTICAL or SUPERSET; on INCOMPATIBLE and ERROR it hands back none.    *)
(***************************************************************************)
C5_GuestOnlyWhenCompatible ==
    /\ pc = "guestdata" => ((guest # NoData) <=> (ret \in {"IDENTICAL", "SUPERSET"}))
    /\ pc = "compared" => guest = NoData

\* the last of the INCOMPATIBLE paths, after diff was computed
C5_Witness == pc = "guestdata" /\ message = "strict" /\ guest = NoData

(***************************************************************************)
(* C6: for a pair that passes the arch check, if the cpu has a vendor and  *)
(* the host has none or another one, the result is INCOMPATIBLE, whatever  *)
(* models and features the two name.                                       *)
(***************************************************************************)
C6_VendorCheck ==
    (/\ pc # "start" /\ ArchPasses
     /\ cpu.vendor # NULL /\ (host.vendor = NULL \/ host.vendor # cpu.vendor)) =>
        ret = "INCOMPATIBLE"

\* the host has no vendor and the cpu names a model and a feature unknown to the catalog
C6_Witness ==
    /\ pc = "guestdata" /\ ret = "INCOMPATIBLE"
    /\ host.vendor = NULL /\ cpu.vendor = "Intel"
    /\ cpu.model = "nomodel" /\ Len(cpu.features) = 1
    /\ cpu.features[1].name = "nofeature"

(***************************************************************************)
(* SpecPeel: x86DataToCPUFeatures on a map loaded from up to MaxPeel of    *)
(* the features below, in any order, and on every data of PeelData.        *)
(***************************************************************************)
\* number of FEATURE elements of the map file
MaxPeel == 3

\* features that overlap: f01 and f12 share bit 1, f01 holds f0
PeelFeatureElements ==
    { FeatureElement("f01", <<EdxNode(1, {0, 1})>>),
      FeatureElement("f12", <<EdxNode(1, {1, 2})>>),
      FeatureElement("f0", <<EdxNode(1, {0})>>),
      FeatureElement("lm", <<EdxNode(CPUX86_EXTENDED + 1, {29})>>) }

\* the sequences of at most n distinct elements of S
RECURSIVE Arrangements(_, _)
Arrangements(S, n) ==
    IF n = 0
    THEN {<<>>}
    ELSE {<<>>} \cup UNION {{<<e>> \o r : r \in Arrangements(S \ {e}, n - 1)} : e \in S}

PeelData ==
    {[basic |-> <<cpuidNull, Cpuid(1, {}, {}, {}, edx)>>, extended |-> e] :
        edx \in SUBSET {0, 1, 2},
        e \in {<<>>, <<Cpuid(CPUX86_EXTENDED, {}, {}, {}, {}),
                       Cpuid(CPUX86_EXTENDED + 1, {}, {}, {}, {29})>>}}

InitPeel ==
    /\ CompareIdle
    /\ xml \in Arrangements(PeelFeatureElements, MaxPeel)
    /\ map = cpuMapLoad(xml, 1, EmptyMap)
    /\ last = NoCallback
    /\ input \in PeelData
    /\ cpu = [type |-> "GUEST", model |-> NULL, vendor |-> NULL, features |-> <<>>]
    /\ host = NoCPU /\ pc = "start" /\ ret = "none" /\ message = "none"
    /\ guest = NoData
    /\ allowlist = NULL /\ wanted = NULL /\ options = {} /\ cpuArray = <<>>

\* x86DataToCPUFeatures(cpu, policy, data, map)
Peel(policy) ==
    /\ pc = "start"
    /\ LET r == x86DataToCPUFeatures(cpu, policy, input, map)
       IN  cpu' = r.cpu /\ input' = r.data
    /\ pc' = "peeled"
    /\ UNCHANGED <<map, last, model1, model2, result, host, ret, message, guest>>
    /\ UNCHANGED <<xml, allowlist, wanted, options, cpuArray>>

NextPeel == \E policy \in {"REQUIRE", "DISABLE"} : Peel(policy)

SpecPeel == InitPeel /\ [][NextPeel]_vars

\* the bits a FEATURE element of the map file stands for
ElementBits(elem) ==
    UNION {LeafBits(elem.cpuids[k].fun,
                    Cpuid(elem.cpuids[k].fun, elem.cpuids[k].eax, elem.cpuids[k].ebx,
                          elem.cpuids[k].ecx, elem.cpuids[k].edx)) :
              k \in 1..Len(elem.cpuids)}

Reverse(seq) == [k \in 1..Len(seq) |-> seq[Len(seq) + 1 - k]]

\* the greedy peel of the set of bits S by the features order, visited in
\* that order: the names emitted, and the bits left
RECURSIVE PeelNames(_, _)
PeelNames(order, S) ==
    IF order = <<>>
    THEN <<>>
    ELSE IF ElementBits(Head(order)) \subseteq S
    THEN <<Head(order).name>> \o PeelNames(Tail(order), S \ ElementBits(Head(order)))
    ELSE PeelNames(Tail(order), S)

RECURSIVE PeelLeft(_, _)
PeelLeft(order, S) ==
    IF order = <<>>
    THEN S
    ELSE IF ElementBits(Head(order)) \subseteq S
    THEN PeelLeft(Tail(order), S \ ElementBits(Head(order)))
    ELSE PeelLeft(Tail(order), S)

FeatureNamesOf(c) == [k \in 1..Len(c.features) |-> c.features[k].name]

(***************************************************************************)
(* C12 as stated: x86DataToCPUFeatures visits the features in load order,  *)
(* the first loaded first; a feature that is a subset of the working data  *)
(* when it is visited is subtracted and emitted with the given policy, so  *)
(* of two overlapping features the one loaded earlier is emitted.          *)
(***************************************************************************)
C12_LoadOrderStep ==
    pc' = "peeled" =>
        /\ FeatureNamesOf(cpu') = PeelNames(xml, Bits(input))
        /\ Bits(input') = PeelLeft(xml, Bits(input))

C12_PeelInLoadOrder == [][C12_LoadOrderStep]_vars

(***************************************************************************)
(* C12 amended: the same, the features being visited in reverse load order *)
(* (the last loaded first), so of two overlapping features the one loaded  *)
(* later is emitted.                                                       *)
(***************************************************************************)
C12_ReverseLoadOrderStep ==
    pc' = "peeled" =>
        /\ FeatureNamesOf(cpu') = PeelNames(Reverse(xml), Bits(input))
        /\ Bits(input') = PeelLeft(Reverse(xml), Bits(input))
        /\ \E policy \in {"REQUIRE", "DISABLE"} :
              \A k \in 1..Len(cpu'.features) : cpu'.features[k].policy = policy

C12_PeelInReverseLoadOrder == [][C12_ReverseLoadOrderStep]_vars

\* f01 was loaded before f12 and both were in the data: f12 alone is
\* emitted and bit 0 of f01 is left
C12_Witness ==
    /\ pc = "peeled"
    /\ Len(xml) = 2 /\ xml[1].name = "f01" /\ xml[2].name = "f12"
    /\ FeatureNamesOf(cpu) = <<"f12">>
    /\ input.basic[2].edx = {0}

(***************************************************************************)
(* SpecDecode: x86Decode against the catalog of one of two map files, on   *)
(* every data of DecodeData, for a HOST or GUEST cpu, with and without an  *)
(* allowlist, a preferred model and VIR_CONNECT_BASELINE_CPU_EXPAND_-      *)
(* FEATURES.                                                               *)
(***************************************************************************)
\* a map file whose feature sse2 has two bits, one of them the bit of sse
cpu_map_sse ==
    << VendorElement("Intel", GenuineIntel), VendorElement("AMD", AuthenticAMD),
       FeatureElement("fpu", <<EdxNode(1, {0})>>),
       FeatureElement("sse", <<EdxNode(1, {25})>>),
       FeatureElement("sse2", <<EdxNode(1, {25, 26})>>),
       FeatureElement("lm", <<EdxNode(CPUX86_EXTENDED + 1, {29})>>),
       ModelElement("base", FALSE, NULL, FALSE, NULL, <<"fpu">>),
       ModelElement("pentium3", TRUE, "base", TRUE, "Intel", <<"sse">>),
       ModelElement("core2", TRUE, "base", TRUE, "Intel", <<"sse2">>),
       ModelElement("x86_64", TRUE, "core2", FALSE, NULL, <<"lm">>) >>

MapFiles == {cpu_map, cpu_map_sse}

\* leaf 0 of a data: no vendor, or the leaf x86VendorLoad makes of the string
VendorLeaves ==
    {cpuidNull} \cup
    {Cpuid(0, {}, Register(virReadBufInt32LE(string, 0)),
           Register(virReadBufInt32LE(string, 8)),
           Register(virReadBufInt32LE(string, 4))) : string \in {GenuineIntel, AuthenticAMD}}

DecodeData ==
    {[basic |-> <<leaf0, Cpuid(1, {}, {}, {}, edx)>>,
      extended |-> <<Cpuid(CPUX86_EXTENDED, {}, {}, {}, {}),
                     Cpuid(CPUX86_EXTENDED + 1, {}, {}, {}, lm)>>] :
        leaf0 \in VendorLeaves, edx \in SUBSET {0, 25, 26}, lm \in {{}, {29}}}

ModelLists ==
    {NULL, <<"base", "core2", "x86_64">>, <<"base", "core2">>, <<"base", "pentium3">>,
     <<"x86_64">>}

\* the cpu x86Decode is given: nothing filled in yet
DecodeCPU(type, fallback) ==
    [type |-> type, fallback |-> fallback, model |-> NULL, vendor |-> NULL,
     features |-> <<>>]

InitDecode ==
    /\ CompareIdle
    /\ xml \in MapFiles
    /\ map = cpuMapLoad(xml, 1, EmptyMap)
    /\ last = NoCallback
    /\ input \in DecodeData
    /\ \E type \in {"HOST", "GUEST"}, fallback \in {"ALLOW", "FORBID"} :
          cpu = DecodeCPU(type, fallback)
    /\ allowlist \in ModelLists
    /\ wanted \in {NULL, "base", "pentium3", "core2", "x86_64"}
    /\ options \in {{}, {"EXPAND_FEATURES"}}
    /\ host = NoCPU /\ pc = "start" /\ ret = "none" /\ message = "none"
    /\ guest = NoData /\ cpuArray = <<>>

\* x86Decode(cpu, data, models, nmodels, preferred, flags)
Decode ==
    /\ pc = "start"
    /\ LET r == DecodeMap(cpu, input, allowlist, wanted, options, map)
       IN  cpu' = r.cpu /\ ret' = r.ret /\ message' = r.error
    /\ pc' = "decoded"
    /\ UNCHANGED <<map, last, model1, model2, result, host, guest, callVars>>

NextDecode == Decode

SpecDecode == InitDecode /\ [][NextDecode]_vars

(***************************************************************************)
(* The claims about x86Decode speak of the candidates: the models of the   *)
(* catalog, each with the definition x86DataToCPU makes of the data for    *)
(* it.  A candidate is named by its position in map.models.                *)
(***************************************************************************)
Candidates == 1..Len(map.models)

CandidateCPU(i) == x86DataToCPU(input, map.models[i], map)

Allowed(i) == allowlist = NULL \/ \E k \in 1..Len(allowlist) : allowlist[k] = map.models[i].name

VendorConflict(i) ==
    /\ map.models[i].vendor # NULL /\ CandidateCPU(i).vendor # NULL
    /\ map.models[i].vendor # CandidateCPU(i).vendor

HasDisable(i) ==
    \E k \in 1..Len(CandidateCPU(i).features) : CandidateCPU(i).features[k].policy = "DISABLE"

Eligible(i) ==
    Allowed(i) /\ ~VendorConflict(i) /\ (cpu.type = "HOST" => ~HasDisable(i))

\* the place of the MODEL element of that name in the map file
LoadIndex(name) ==
    CHOOSE k \in 1..Len(xml) : xml[k].kind = "MODEL" /\ xml[k].name = name

\* the eligible candidate with the shortest feature list, the one loaded
\* latest among those with the shortest
Shortest(i) ==
    /\ Eligible(i)
    /\ \A j \in Candidates :
          Eligible(j) =>
             \/ Len(CandidateCPU(i).features) < Len(CandidateCPU(j).features)
             \/ /\ Len(CandidateCPU(i).features) = Len(CandidateCPU(j).features)
                /\ LoadIndex(map.models[i].name) >= LoadIndex(map.models[j].name)

\* preferred names a candidate that passes the filters
PreferredEligible == \E i \in Candidates : Eligible(i) /\ map.models[i].name = wanted
\* preferred names a model of the catalog that the caller does not allow
PreferredNotAllowed ==
    \E i \in Candidates : map.models[i].name = wanted /\ ~Allowed(i)
\* ... and the cpu forbids the fallback to another model
PreferredForbidden == PreferredNotAllowed /\ cpu.fallback = "FORBID"

(***************************************************************************)
(* C13: when no candidate matches preferred (there is none, or the model   *)
(* it names is not eligible and its being not allowed is not an error),    *)
(* x86Decode returns the eligible candidate (allowed, no vendor conflict,  *)
(* for a HOST cpu no DISABLE feature) whose feature list is shortest, the  *)
(* one loaded latest among those with the shortest list; it fails when no  *)
(* candidate is eligible.                                                  *)
(***************************************************************************)
C13_ShortestCandidate ==
    (pc = "decoded" /\ ~PreferredEligible /\ ~PreferredForbidden) =>
        /\ (ret = 0) <=> (\E i \in Candidates : Eligible(i))
        /\ ret = 0 => \E i \in Candidates :
                         /\ Shortest(i)
                         /\ cpu.model = map.models[i].name
                         /\ cpu.vendor = CandidateCPU(i).vendor
                         /\ SubSeq(FeatureNamesOf(cpu), 1, Len(CandidateCPU(i).features))
                               = FeatureNamesOf(CandidateCPU(i))

\* base and x86_64 both describe the data with one feature: x86_64, loaded
\* later, is returned
C13_Witness ==
    /\ pc = "decoded" /\ ret = 0 /\ wanted = NULL /\ allowlist = NULL
    /\ xml = cpu_map /\ cpu.type = "GUEST" /\ options = {}
    /\ cpu.model = "x86_64" /\ Len(cpu.features) = 1
    /\ \E i \in Candidates :
          /\ map.models[i].name = "base" /\ Eligible(i)
          /\ Len(CandidateCPU(i).features) = 1

(***************************************************************************)
(* C14: a preferred model that is in the catalog but not allowed makes     *)
(* x86Decode fail with UnsupportedModel when cpu.fallback is FORBID, and   *)
(* is skipped, another eligible model being chosen, when it is ALLOW; a    *)
(* preferred model that is allowed and passes the vendor and host-type     *)
(* filters is the one returned, even when another eligible candidate has   *)
(* fewer features.                                                         *)
(***************************************************************************)
C14_PreferredModel ==
    pc = "decoded" =>
        /\ PreferredForbidden => (ret = -1 /\ message = "UnsupportedModel")
        /\ (PreferredNotAllowed /\ cpu.fallback = "ALLOW") =>
              /\ cpu.model # wanted
              /\ (ret = 0) <=> (\E i \in Candidates : Eligible(i))
              /\ ret = 0 => \E i \in Candidates :
                               Eligible(i) /\ cpu.model = map.models[i].name
        /\ PreferredEligible => (ret = 0 /\ cpu.model = wanted)

\* the preferred model is returned although another eligible candidate
\* describes the data with fewer features
C14_Witness ==
    /\ pc = "decoded" /\ ret = 0 /\ cpu.model = wanted /\ allowlist # NULL
    /\ \E i, j \in Candidates :
          /\ map.models[i].name = wanted /\ Eligible(j)
          /\ Len(CandidateCPU(j).features) < Len(CandidateCPU(i).features)

(***************************************************************************)
(* The candidate x86Decode selected, and what its expansion is made of.    *)
(***************************************************************************)
\* the candidate whose name the output carries
SelectedCandidate == CHOOSE i \in Candidates : map.models[i].name = cpu.model

\* the feature list x86DataToCPU built for the selected candidate
BuiltNames == FeatureNamesOf(CandidateCPU(SelectedCandidate))

\* the features of the catalog, the last loaded first
FeaturesLastFirst == Reverse(SelectSeq(xml, LAMBDA e : e.kind = "FEATURE"))

NamedBits(names) == UNION {FeatureBits(map, names[k]) : k \in 1..Len(names)}

\* the features the output lists after those x86DataToCPU built
AddedFeatures == SubSeq(cpu.features, Len(BuiltNames) + 1, Len(cpu.features))

\* the hypothesis of the scenario of C15
DecodePreferredScenario ==
    /\ Bits(input) = Bits(map.models[x86ModelFind(map, "core2")].data)
                      \cup FeatureBits(map, "lm")
    /\ allowlist # NULL /\ allowlist = <<"base", "core2", "x86_64">>
    /\ wanted = "core2"
    /\ cpu.type = "GUEST"

\* what both readings of C15 share: the list without the flag, the policy
\* of the features added with it, and the scenario
ExpandFrame ==
    /\ SubSeq(FeatureNamesOf(cpu), 1, Len(BuiltNames)) = BuiltNames
    /\ "EXPAND_FEATURES" \notin options => FeatureNamesOf(cpu) = BuiltNames
    /\ cpu.type = "GUEST" =>
          /\ SubSeq(cpu.features, 1, Len(BuiltNames))
                = CandidateCPU(SelectedCandidate).features
          /\ \A k \in 1..Len(AddedFeatures) : AddedFeatures[k].policy = "REQUIRE"
    /\ DecodePreferredScenario =>
          /\ cpu.model = "core2"
          /\ \E k \in 1..Len(cpu.features) : cpu.features[k] = CPUFeature("lm", "REQUIRE")

(***************************************************************************)
(* C15 as stated: with EXPAND_FEATURES, x86Decode adds to the output, with *)
(* policy REQUIRE, the features peeled from the data decoded less the      *)
(* features listed for the selected model; without it the output list is   *)
(* the one x86DataToCPU built.  For data = core2 united with lm, allowlist *)
(* [base, core2, x86_64] and preferred core2 the output names core2 and    *)
(* lists lm as REQUIRE.  It is stated here for the data that have every    *)
(* bit of the selected model.                                              *)
(***************************************************************************)
C15_ExpandResidueOfData ==
    (/\ pc = "decoded" /\ ret = 0
     /\ Bits(map.models[SelectedCandidate].data) \subseteq Bits(input)) =>
        /\ ExpandFrame
        /\ "EXPAND_FEATURES" \in options =>
              FeatureNamesOf([features |-> AddedFeatures])
                = PeelNames(FeaturesLastFirst, Bits(input) \ NamedBits(BuiltNames))

(***************************************************************************)
(* C15 amended: the same, the features added being those peeled from the   *)
(* catalog data of the selected model less the features x86DataToCPU       *)
(* listed for it: the expansion spells out the model, not the data.        *)
(***************************************************************************)
C15_ExpandResidueOfModel ==
    (pc = "decoded" /\ ret = 0) =>
        /\ ExpandFrame
        /\ "EXPAND_FEATURES" \in options =>
              FeatureNamesOf([features |-> AddedFeatures])
                = PeelNames(FeaturesLastFirst,
                            Bits(map.models[SelectedCandidate].data)
                            \ NamedBits(BuiltNames))

\* the scenario with the flag set: lm, then the features of core2
C15_Witness ==
    /\ pc = "decoded" /\ ret = 0 /\ DecodePreferredScenario /\ xml = cpu_map
    /\ "EXPAND_FEATURES" \in options
    /\ FeatureNamesOf(cpu) = <<"lm", "sse2", "fpu">>

(***************************************************************************)
(* C17: the description x86Decode returns for a HOST cpu is sound: every   *)
(* bit of the selected model's data and of the features listed is a bit    *)
(* of the data decoded.                                                    *)
(***************************************************************************)
C17_HostDecodeSound ==
    (pc = "decoded" /\ ret = 0 /\ cpu.type = "HOST") =>
        (Bits(map.models[SelectedCandidate].data) \cup NamedBits(FeatureNamesOf(cpu)))
            \subseteq Bits(input)

(***************************************************************************)
(* SpecRoundTrip: a GUEST definition naming a model, a vendor and REQUIRE  *)
(* features of the catalog is encoded (x86Encode, required and vendor),    *)
(* and the two data united are decoded into the same definition, with no   *)
(* preferred model or with the model of the definition as the preferred.   *)
(***************************************************************************)
RoundTripDefs(m) ==
    {[type |-> "GUEST", fallback |-> "ALLOW", model |-> model, vendor |-> vendor,
      features |-> features] :
        model \in Names(m.models), vendor \in Names(m.vendors),
        features \in Arrangements({CPUFeature(name, "REQUIRE") : name \in Names(m.features)},
                                  MaxFeatures)}

InitRoundTrip ==
    /\ CompareIdle
    /\ xml \in MapFiles
    /\ map = cpuMapLoad(xml, 1, EmptyMap)
    /\ last = NoCallback
    /\ cpu \in RoundTripDefs(map)
    /\ wanted \in {NULL, cpu.model}
    /\ allowlist \in {NULL, <<"base", "core2">>}
    /\ input = NoData /\ options = {} /\ cpuArray = <<>>
    /\ host = NoCPU /\ pc = "start" /\ ret = "none" /\ message = "none"
    /\ guest = NoData

\* the required and the vendor data x86Encode returned, united
EncodedData(r) == IF r.vendor = NoData THEN r.required ELSE x86DataAdd(r.required, r.vendor)

\* x86Encode(arch, cpu, NULL, &required, NULL, NULL, NULL, &vendor)
RoundTripEncode ==
    /\ pc = "start"
    /\ LET r == EncodeMap(cpu, map, {"required", "vendor"})
       IN  /\ ret' = r.ret
           /\ input' = IF r.ret = 0 THEN EncodedData(r) ELSE NoData
    /\ pc' = "encoded"
    /\ UNCHANGED <<map, last, model1, model2, result, host, cpu, message, guest>>
    /\ UNCHANGED <<xml, allowlist, wanted, options, cpuArray>>

\* x86Decode(cpu, data, models, nmodels, preferred, 0) on the data encoded
RoundTripDecode ==
    /\ pc = "encoded" /\ ret = 0
    /\ LET r == DecodeMap(cpu, input, allowlist, wanted, options, map)
       IN  cpu' = r.cpu /\ ret' = r.ret /\ message' = r.error
    /\ pc' = "decoded"
    /\ UNCHANGED <<map, last, model1, model2, result, host, guest, callVars>>

NextRoundTrip == RoundTripEncode \/ RoundTripDecode

SpecRoundTrip == InitRoundTrip /\ [][NextRoundTrip]_vars

\* the names of the features of c with policy REQUIRE
RequireSet(c) ==
    {c.features[k].name : k \in {k \in 1..Len(c.features) : c.features[k].policy = "REQUIRE"}}

(***************************************************************************)
(* C16 as stated: decoding the encoding of such a definition, no list of   *)
(* allowed models given, recovers its model name, its vendor and the set   *)
(* of its REQUIRE features.                                                *)
(***************************************************************************)
C16_RoundTripStep ==
    (pc = "encoded" /\ pc' = "decoded" /\ allowlist = NULL) =>
        /\ ret' = 0
        /\ cpu'.model = cpu.model
        /\ cpu'.vendor = cpu.vendor
        /\ RequireSet(cpu') = RequireSet(cpu)

C16_RoundTrip == [][C16_RoundTripStep]_vars

\* no two features of the catalog share a bit, none is empty, none shares
\* a bit with the leaf of a vendor, and no vendor's leaf holds another's
DisjointCatalog ==
    /\ \A i, j \in 1..Len(map.features) :
          i # j => Bits(map.features[i].data) \cap Bits(map.features[j].data) = {}
    /\ \A i \in 1..Len(map.features) : Bits(map.features[i].data) # {}
    /\ \A i \in 1..Len(map.features), v \in 1..Len(map.vendors) :
          Bits(map.features[i].data) \cap LeafBits(0, map.vendors[v].cpuid) = {}
    /\ \A v, w \in 1..Len(map.vendors) :
          v # w => ~(LeafBits(0, map.vendors[v].cpuid) \subseteq LeafBits(0, map.vendors[w].cpuid))

\* the catalog vendor of the model of that name
ModelVendor(name) == map.models[x86ModelFind(map, name)].vendor

(***************************************************************************)
(* C16 amended: when no two features of the catalog share a bit (and none  *)
(* is empty or touches a vendor leaf, no vendor leaf holding another), the *)
(* model of the definition is allowed and is given as the preferred model  *)
(* and its catalog vendor, if it has one, is the vendor of the definition, *)
(* decoding the encoding recovers the model name, the vendor and those of  *)
(* the REQUIRE features that the model's data does not already hold, with  *)
(* no other feature.                                                       *)
(***************************************************************************)
C16_PreferredRoundTripStep ==
    (/\ pc = "encoded" /\ pc' = "decoded"
     /\ DisjointCatalog
     /\ wanted = cpu.model
     /\ allowlist = NULL \/ \E k \in 1..Len(allowlist) : allowlist[k] = cpu.model
     /\ ModelVendor(cpu.model) \in {NULL, cpu.vendor}) =>
        /\ ret' = 0
        /\ cpu'.model = cpu.model
        /\ cpu'.vendor = cpu.vendor
        /\ RequireSet(cpu') =
              {name \in RequireSet(cpu) :
                  ~(FeatureBits(map, name) \subseteq Bits(map.models[x86ModelFind(map, cpu.model)].data))}
        /\ \A k \in 1..Len(cpu'.features) : cpu'.features[k].policy = "REQUIRE"

C16_PreferredRoundTrip == [][C16_PreferredRoundTripStep]_vars

\* core2 with sse2, which it holds, and lm, and with its vendor Intel,
\* came back as core2 with Intel and lm
C16_Witness ==
    /\ pc = "decoded" /\ ret = 0 /\ xml = cpu_map /\ wanted = "core2"
    /\ cpu.model = "core2" /\ cpu.vendor = "Intel"
    /\ cpu.features = <<CPUFeature("lm", "REQUIRE")>>
    /\ Bits(input) = Bits(map.models[x86ModelFind(map, "core2")].data)
                      \cup FeatureBits(map, "lm")
                      \cup LeafBits(0, map.vendors[x86VendorFind(map, "Intel")].cpuid)

(***************************************************************************)
(* SpecBaseline: x86Baseline on up to MaxCpus definitions, over the        *)
(* catalog of the scenarios and over one with a model of another vendor    *)
(* that shares no bit with the others.                                     *)
(***************************************************************************)
\* the largest number of CPUs given to x86Baseline
MaxCpus == 2

cpu_map_amd ==
    << VendorElement("Intel", GenuineIntel), VendorElement("AMD", AuthenticAMD),
       FeatureElement("fpu", <<EdxNode(1, {0})>>),
       FeatureElement("sse2", <<EdxNode(1, {26})>>),
       FeatureElement("lm", <<EdxNode(CPUX86_EXTENDED + 1, {29})>>),
       ModelElement("base", FALSE, NULL, FALSE, NULL, <<"fpu">>),
       ModelElement("core2", TRUE, "base", TRUE, "Intel", <<"sse2">>),
       ModelElement("x86_64", TRUE, "core2", FALSE, NULL, <<"lm">>),
       ModelElement("opteron", FALSE, NULL, TRUE, "AMD", <<"lm">>) >>

BaselineDefs ==
    {CPUDef("x86_64", "GUEST", "EXACT", model, vendor, features) :
        model \in {"base", "core2", "x86_64", "opteron", "nomodel"},
        vendor \in {NULL, "Intel", "AMD"},
        features \in {<<>>, <<CPUFeature("lm", "REQUIRE")>>}}

\* the sequences of 1 to n elements of S
SeqsUpTo(S, n) == UNION {[1..k -> S] : k \in 1..n}

InitBaseline ==
    /\ CompareIdle
    /\ xml \in {cpu_map, cpu_map_amd}
    /\ map = cpuMapLoad(xml, 1, EmptyMap)
    /\ last = NoCallback
    /\ cpuArray \in SeqsUpTo(BaselineDefs, MaxCpus)
    /\ allowlist \in {NULL, <<"base", "core2">>}
    /\ options \in {{}, {"EXPAND_FEATURES"}}
    /\ input = NoData /\ wanted = NULL
    /\ host = NoCPU /\ cpu = NoCPU /\ pc = "start" /\ ret = "none" /\ message = "none"
    /\ guest = NoData

\* x86Baseline(cpus, ncpus, models, nmodels, flags); ret is -1 when it
\* returns NULL
Baseline ==
    /\ pc = "start"
    /\ LET r == BaselineMap(cpuArray, allowlist, options, map)
       IN  cpu' = r.cpu /\ ret' = r.ret /\ message' = r.error
    /\ pc' = "baselined"
    /\ UNCHANGED <<map, last, model1, model2, result, host, guest, callVars>>

NextBaseline == Baseline

SpecBaseline == InitBaseline /\ [][NextBaseline]_vars

\* two of the CPUs given carry vendor fields that differ
VendorFieldsDiffer ==
    \E i, j \in 1..Len(cpuArray) :
        /\ cpuArray[i].vendor # NULL /\ cpuArray[j].vendor # NULL
        /\ cpuArray[i].vendor # cpuArray[j].vendor

\* every CPU given carries a vendor field
AllVendorFields == \A i \in 1..Len(cpuArray) : cpuArray[i].vendor # NULL

(***************************************************************************)
(* C18: x86Baseline fails whenever two of the CPUs carry vendor fields     *)
(* that name different vendors, and when it succeeds its result has a      *)
(* vendor exactly when every CPU given has a vendor field.                 *)
(***************************************************************************)
C18_VendorUnified ==
    pc = "baselined" =>
        /\ VendorFieldsDiffer => ret = -1 /\ cpu = NoCPU
        /\ ret = 0 => ((cpu.vendor # NULL) <=> AllVendorFields)

\* a baseline of two CPUs of which the second has no vendor field
C18_Witness ==
    /\ pc = "baselined" /\ ret = 0 /\ Len(cpuArray) = 2
    /\ cpuArray[1].vendor = "Intel" /\ cpuArray[2].vendor = NULL
    /\ cpu.vendor = NULL /\ cpu.model = "core2"

\* the model and the REQUIRE features of c are in the catalog
Resolves(c) ==
    /\ x86ModelFind(map, c.model) # 0
    /\ \A k \in 1..Len(c.features) :
          c.features[k].policy = "REQUIRE" => x86FeatureFind(map, c.features[k].name) # 0

\* the bits of the REQUIRE model of c: its model united with its features
RequireBits(c) ==
    Bits(map.models[x86ModelFind(map, c.model)].data)
    \cup UNION {FeatureBits(map, name) : name \in RequireSet(c)}

\* the bits every CPU given has
CommonBits == {b \in RequireBits(cpuArray[1]) : \A i \in 1..Len(cpuArray) : b \in RequireBits(cpuArray[i])}

\* the vendor the CPUs agree on: the first a vendor field or, after the
\* first CPU, the catalog vendor of a model names
CommonVendorAt(i) ==
    IF cpuArray[i].vendor # NULL THEN cpuArray[i].vendor
    ELSE IF i > 1 THEN ModelVendor(cpuArray[i].model) ELSE NULL

CommonVendor ==
    IF \A i \in 1..Len(cpuArray) : CommonVendorAt(i) = NULL
    THEN NULL
    ELSE CommonVendorAt(CHOOSE i \in 1..Len(cpuArray) :
                           /\ CommonVendorAt(i) # NULL
                           /\ \A j \in 1..(i - 1) : CommonVendorAt(j) = NULL)

CommonVendorBits ==
    IF CommonVendor = NULL THEN {}
    ELSE LeafBits(0, map.vendors[x86VendorFind(map, CommonVendor)].cpuid)

\* the bits of S in register reg of leaf function
RegisterOf(S, function, reg) == {t[3] : t \in {t \in S : t[1] = function /\ t[2] = reg}}

LeafOf(S, function) ==
    Cpuid(function, RegisterOf(S, function, "eax"), RegisterOf(S, function, "ebx"),
          RegisterOf(S, function, "ecx"), RegisterOf(S, function, "edx"))

\* one more than the largest of the numbers of F, 0 when F is empty
Span(F) == IF F = {} THEN 0 ELSE 1 + CHOOSE f \in F : \A g \in F : g <= f

\* the CPUID data that holds the bits of S
DataOfBits(S) ==
    [basic |-> [i \in 1..Span({t[1] : t \in {t \in S : t[1] < CPUX86_EXTENDED}}) |->
                  LeafOf(S, i - 1)],
     extended |-> [i \in 1..Span({t[1] - CPUX86_EXTENDED :
                                     t \in {t \in S : t[1] >= CPUX86_EXTENDED}}) |->
                     LeafOf(S, CPUX86_EXTENDED + i - 1)]]

\* the CPU x86Decode makes of the common bits and the common vendor's leaf
CommonDecoded ==
    DecodeMap(DecodeCPU("GUEST", "ALLOW"), DataOfBits(CommonBits \cup CommonVendorBits),
              allowlist, NULL, options, map)

\* errors x86Baseline reports before it looks at the intersection
BaselineInputErrors == {"ModelFromCPU", "UnknownVendor", "VendorDiffers", "VendorsDoNotMatch"}

C19_IncompatibleWitness ==
    /\ pc = "baselined" /\ ret = -1 /\ message = "Incompatible"
    /\ Len(cpuArray) = 2 /\ CommonBits = {}

(***************************************************************************)
(* SpecUpdate: x86Update of a guest definition of mode CUSTOM against a    *)
(* host definition.  cpu is the guest definition, updated in place;        *)
(* cpuArray keeps the definition as it was passed.                         *)
(***************************************************************************)
UpdateHosts ==
    {CPUDef("x86_64", "HOST", "EXACT", model, NULL, features) :
        model \in {"base", "pentium3", "core2", "nomodel"},
        features \in {<<>>, <<CPUFeature("lm", "unset")>>}}

UpdateGuests ==
    {CPUDef("x86_64", "GUEST", match, model, NULL, features) :
        match \in {"MINIMUM", "EXACT", "STRICT"},
        model \in {"base", "core2", "nomodel"},
        features \in FeatureLists(1, MaxFeatures, Policies)}

InitUpdate ==
    /\ CompareIdle
    /\ xml \in MapFiles
    /\ map = cpuMapLoad(xml, 1, EmptyMap)
    /\ last = NoCallback
    /\ host \in UpdateHosts
    /\ cpu \in UpdateGuests
    /\ cpuArray = <<cpu>>
    /\ input = NoData /\ wanted = NULL /\ allowlist = NULL /\ options = {}
    /\ pc = "start" /\ ret = "none" /\ message = "none"
    /\ guest = NoData

\* x86Update(guest, host) with guest->mode CUSTOM: x86UpdateCustom
Update ==
    /\ pc = "start"
    /\ LET r == UpdateCustomMap(cpu, host, map)
       IN  cpu' = r.cpu /\ ret' = r.ret
    /\ pc' = "updated"
    /\ UNCHANGED <<map, last, model1, model2, result, host, message, guest, callVars>>

NextUpdate == Update

SpecUpdate == InitUpdate /\ [][NextUpdate]_vars

\* the bits of the host model: the model the host names united with the
\* features of the host
HostModelBits ==
    Bits(map.models[x86ModelFind(map, host.model)].data)
    \cup UNION {FeatureBits(map, host.features[k].name) : k \in 1..Len(host.features)}

(***************************************************************************)
(* C20: after a successful update in mode CUSTOM no feature of the guest   *)
(* is OPTIONAL: a feature that was OPTIONAL is REQUIRE when the host model *)
(* has every bit of it and DISABLE otherwise, and a feature of another     *)
(* policy keeps it.                                                        *)
(***************************************************************************)
C20_OptionalResolved ==
    (pc = "updated" /\ ret = 0) =>
        /\ \A k \in 1..Len(cpu.features) : cpu.features[k].policy # "OPTIONAL"
        /\ Len(cpu.features) >= Len(cpuArray[1].features)
        /\ \A k \in 1..Len(cpuArray[1].features) :
              /\ cpu.features[k].name = cpuArray[1].features[k].name
              /\ cpu.features[k].policy =
                    IF cpuArray[1].features[k].policy # "OPTIONAL"
                    THEN cpuArray[1].features[k].policy
                    ELSE IF FeatureBits(map, cpu.features[k].name) \subseteq HostModelBits
                    THEN "REQUIRE"
                    ELSE "DISABLE"

\* against a host of model core2, sse2, which the host has, became
\* REQUIRE and lm, which it lacks, became DISABLE
C20_Witness ==
    /\ pc = "updated" /\ ret = 0 /\ xml = cpu_map_sse
    /\ host.model = "core2" /\ host.features = <<>>
    /\ Len(cpuArray[1].features) = 2
    /\ cpuArray[1].features[1] = CPUFeature("sse2", "OPTIONAL")
    /\ cpuArray[1].features[2] = CPUFeature("lm", "OPTIONAL")
    /\ cpu.features[1] = CPUFeature("sse2", "REQUIRE")
    /\ cpu.features[2] = CPUFeature("lm", "DISABLE")

(***************************************************************************)
(* SpecHasFeature: x86HasFeature on a CPUID data and a name; wanted is the *)
(* name asked for.                                                         *)
(***************************************************************************)
InitHasFeature ==
    /\ CompareIdle
    /\ xml \in MapFiles
    /\ map = cpuMapLoad(xml, 1, EmptyMap)
    /\ last = NoCallback
    /\ input \in DecodeData
    /\ wanted \in {"fpu", "sse", "sse2", "lm", "nofeature", "core2"}
    /\ allowlist = NULL /\ options = {} /\ cpuArray = <<>>
    /\ host = NoCPU /\ cpu = NoCPU /\ pc = "start" /\ ret = "none" /\ message = "none"
    /\ guest = NoData

\* x86HasFeature(data, name)
HasFeature ==
    /\ pc = "start"
    /\ ret' = HasFeatureMap(input, wanted, map)
    /\ pc' = "probed"
    /\ UNCHANGED <<map, last, model1, model2, result, host, cpu, message, guest, callVars>>

SpecHasFeature == InitHasFeature /\ [][HasFeature]_vars

\* the name asked for is the name of a FEATURE element of the catalog file
InCatalog == \E k \in 1..Len(xml) : xml[k].kind = "FEATURE" /\ xml[k].name = wanted

\* the bits of the FEATURE element of that name in the catalog file
WantedBits ==
    UNION {ElementBits(xml[k]) : k \in {k \in 1..Len(xml) : xml[k].kind = "FEATURE" /\ xml[k].name = wanted}}

(***************************************************************************)
(* C21: x86HasFeature returns 1 exactly when the name is a feature of the  *)
(* catalog and the data has every bit of it, 0 exactly when the name is a  *)
(* feature of the catalog and the data lacks a bit of it, and a result     *)
(* that is neither, -1, exactly when the name is not in the catalog.       *)
(***************************************************************************)
C21_HasFeature ==
    pc = "probed" =>
        /\ (ret = 1) <=> (InCatalog /\ WantedBits \subseteq Bits(input))
        /\ (ret = 0) <=> (InCatalog /\ ~(WantedBits \subseteq Bits(input)))
        /\ (ret \notin {0, 1}) <=> ~InCatalog
        /\ ret \in {-1, 0, 1}

\* sse2 has two bits of which the data has one: the answer is 0
C21_Witness ==
    /\ pc = "probed" /\ ret = 0 /\ xml = cpu_map_sse /\ wanted = "sse2"
    /\ <<1, "edx", 25>> \in Bits(input) /\ <<1, "edx", 26>> \notin Bits(input)

(***************************************************************************)
(* SpecAlgebra: two CPUID data built from the empty data by                *)
(* x86DataAddCpuid, x86DataAdd, x86DataSubtract, x86DataIntersect and      *)
(* x86DataCopy.  input is the data the operations act on in place and      *)
(* guest their second operand; pc names the last operation.  model1 and    *)
(* model2 keep the two data as they were before an x86DataAdd.             *)
(***************************************************************************)
\* the basic functions x86DataAddCpuid is called with are 0..MaxLeaf-1
MaxLeaf == 2

AlgebraCpuids ==
    {Cpuid(function, eax, {}, {}, edx) :
        function \in 0..(MaxLeaf - 1) \cup {CPUX86_EXTENDED},
        eax \in {{}, {0}}, edx \in {{}, {0}}}

InitAlgebra ==
    /\ LoadIdle /\ CompareIdle
    /\ xml = <<>> /\ allowlist = NULL /\ wanted = NULL /\ options = {} /\ cpuArray = <<>>
    /\ input = EmptyData /\ guest = EmptyData
    /\ host = NoCPU /\ cpu = NoCPU /\ pc = "start" /\ ret = "none" /\ message = "none"

AlgebraFrame ==
    UNCHANGED <<map, last, result, host, cpu, ret, message, xml, allowlist, wanted, options, cpuArray>>

\* x86DataAddCpuid(data, cpuid) on either data
AddCpuid(cpuid) ==
    /\ \/ input' = x86DataAddCpuid(input, cpuid) /\ guest' = guest
       \/ guest' = x86DataAddCpuid(guest, cpuid) /\ input' = input
    /\ pc' = "add_cpuid"
    /\ model1' = NoModel /\ model2' = NoModel
    /\ AlgebraFrame

\* x86DataAdd(data1, data2)
Add ==
    /\ input' = x86DataAdd(input, guest)
    /\ model1' = Model(NULL, NULL, input) /\ model2' = Model(NULL, NULL, guest)
    /\ pc' = "add"
    /\ UNCHANGED guest
    /\ AlgebraFrame

\* x86DataSubtract(data1, data2); after x86DataAdd(data1, data2) the data
\* before the addition stay recorded
Subtract ==
    /\ input' = x86DataSubtract(input, guest)
    /\ pc' = IF pc = "add" THEN "add_subtract" ELSE "subtract"
    /\ IF pc = "add" THEN UNCHANGED <<model1, model2>>
                     ELSE model1' = NoModel /\ model2' = NoModel
    /\ UNCHANGED guest
    /\ AlgebraFrame

\* x86DataSubtract(data, data)
SubtractSelf ==
    /\ input' = x86DataSubtract(input, input)
    /\ pc' = "subtract_self"
    /\ model1' = NoModel /\ model2' = NoModel
    /\ UNCHANGED guest
    /\ AlgebraFrame

\* x86DataIntersect(data1, data2)
Intersect ==
    /\ input' = x86DataIntersect(input, guest)
    /\ pc' = "intersect"
    /\ model1' = NoModel /\ model2' = NoModel
    /\ UNCHANGED guest
    /\ AlgebraFrame

\* data2 = x86DataCopy(data1)
Copy ==
    /\ guest' = x86DataCopy(input)
    /\ pc' = "copy"
    /\ model1' = NoModel /\ model2' = NoModel
    /\ UNCHANGED input
    /\ AlgebraFrame

NextAlgebra ==
    \/ \E cpuid \in AlgebraCpuids : AddCpuid(cpuid)
    \/ Add
    \/ Subtract
    \/ SubtractSelf
    \/ Intersect
    \/ Copy

SpecAlgebra == InitAlgebra /\ [][NextAlgebra]_vars

\* every leaf of the data has the function of its position
Indexed(d) ==
    /\ \A k \in 1..Len(d.basic) : d.basic[k].function = k - 1
    /\ \A k \in 1..Len(d.extended) : d.extended[k].function = CPUX86_EXTENDED + k - 1

\* the leaves of after beyond the end of before
GrownBits(before, after) ==
    UNION {LeafBits(k - 1, after.basic[k]) : k \in (Len(before.basic) + 1)..Len(after.basic)}
    \cup UNION {LeafBits(CPUX86_EXTENDED + k - 1, after.extended[k]) :
                   k \in (Len(before.extended) + 1)..Len(after.extended)}

\* after is before grown or left as long, the new leaves null but for one
\* leaf at the end when bits were added by x86DataAddCpuid and but for
\* the bits of the data added by x86DataAdd
Grows(before, after) ==
    /\ Len(after.basic) >= Len(before.basic)
    /\ Len(after.extended) >= Len(before.extended)
    /\ pc' \notin {"add", "add_cpuid"} => GrownBits(before, after) = {}
    /\ pc' = "add" => GrownBits(before, after) \subseteq Bits(guest)
    /\ pc' = "add_cpuid" =>
          /\ \A k \in (Len(before.basic) + 1)..(Len(after.basic) - 1) :
                LeafBits(k - 1, after.basic[k]) = {}
          /\ \A k \in (Len(before.extended) + 1)..(Len(after.extended) - 1) :
                LeafBits(CPUX86_EXTENDED + k - 1, after.extended[k]) = {}

C23_GrowthStep ==
    /\ Indexed(input') /\ Indexed(guest')
    /\ Grows(input, input')
    /\ pc' # "copy" => Grows(guest, guest')
    /\ pc' = "copy" => /\ Len(guest'.basic) = Len(input.basic)
                       /\ Len(guest'.extended) = Len(input.extended)

(***************************************************************************)
(* C23: through every x86DataAddCpuid, x86DataAdd, x86DataSubtract,        *)
(* x86DataIntersect and x86DataCopy from the empty data, the leaf at       *)
(* position i of basic has function i and the leaf at position i of        *)
(* extended has function CPUX86_EXTENDED + i, no array gets shorter (a     *)
(* copy is as long as its original), and the positions an array grows by   *)
(* are null but for the bits the operation adds.                           *)
(***************************************************************************)
C23_IndexedGrowth == [][C23_GrowthStep]_vars

\* the basic array grew by two leaves for one x86DataAddCpuid of leaf 1:
\* leaf 0 is null and has function 0
C23_Witness ==
    /\ pc = "add_cpuid" /\ Len(input.basic) = 2
    /\ input.basic[1] = Cpuid(0, {}, {}, {}, {})
    /\ input.basic[2] = Cpuid(1, {0}, {}, {}, {})
    /\ Len(input.extended) = 1 /\ input.extended[1].function = CPUX86_EXTENDED

(***************************************************************************)
(* C24: x86DataSubtract(X, X) leaves X empty; x86DataAdd(X, Y) followed by *)
(* x86DataSubtract(X, Y) leaves in X the bits it had that Y has not, which *)
(* is X as it was exactly when X and Y shared no bit; Y is as it was.      *)
(***************************************************************************)
C24_AddSubtract ==
    /\ pc = "subtract_self" => Bits(input) = {} /\ x86DataIsEmpty(input)
    /\ pc = "add_subtract" =>
          /\ Bits(input) = Bits(model1.data) \ Bits(model2.data)
          /\ (Bits(input) = Bits(model1.data)) <=>
                (Bits(model1.data) \cap Bits(model2.data) = {})
          /\ Bits(model1.data) \ Bits(input) = Bits(model1.data) \cap Bits(model2.data)
          /\ guest = model2.data
    /\ pc = "add" => guest = model2.data /\ Bits(input) = Bits(model1.data) \cup Bits(guest)

\* X and Y shared a bit of leaf 1, X had a leaf Y has not, and Y a longer
\* array than X
C24_Witness ==
    /\ pc = "add_subtract"
    /\ <<1, "eax", 0>> \in Bits(model1.data) \cap Bits(model2.data)
    /\ <<0, "edx", 0>> \in Bits(input)
    /\ Len(model1.data.extended) = 0 /\ Len(guest.extended) = 1
    /\ <<1, "eax", 0>> \notin Bits(input)

(***************************************************************************)
(* C25: the guest data x86Compute emits have no bit of a DISABLE feature   *)
(* of the cpu, every bit of its FORCE features that is not a bit of a      *)
(* DISABLE feature, and every bit of the normalized require set, whatever  *)
(* the match mode and the type of the cpu.                                 *)
(***************************************************************************)
C25_GuestDataPolicies ==
    (pc = "guestdata" /\ guest # NoData) =>
        /\ ret \in {"IDENTICAL", "SUPERSET"}
        /\ Bits(guest) \cap PolicyBits(cpu, "DISABLE") = {}
        /\ (PolicyBits(cpu, "FORCE") \ PolicyBits(cpu, "DISABLE")) \subseteq Bits(guest)
        /\ NormalizedRequire \subseteq Bits(guest)

\* the host has sse2, which the cpu disables, and lacks lm, which the cpu
\* forces: the guest data have lm and not sse2
C25_Witness ==
    /\ pc = "guestdata" /\ guest # NoData
    /\ host.model = "core2" /\ host.features = <<>>
    /\ cpu.type = "GUEST" /\ cpu.model = "base"
    /\ cpu.features = <<CPUFeature("sse2", "DISABLE"), CPUFeature("lm", "FORCE")>>
    /\ Bits(guest) = ModelBits("base") \cup FeatureBits(x86LoadMap, "lm")

\* x86Baseline on the CPUs given, in the reverse of the order given
BaselineReversed == BaselineMap(Reverse(cpuArray), allowlist, options, map)

(***************************************************************************)
(* C26: x86Baseline on the same CPUs in another order fails when it fails  *)
(* in the order given, and otherwise succeeds with the same model, the     *)
(* same vendor or absence of vendor, and the same features.                *)
(***************************************************************************)
C26_OrderIndependent ==
    pc = "baselined" =>
        /\ BaselineReversed.ret = ret
        /\ ret = 0 => /\ BaselineReversed.cpu.model = cpu.model
                      /\ BaselineReversed.cpu.vendor = cpu.vendor
                      /\ BaselineReversed.cpu.features = cpu.features

(***************************************************************************)
(* SpecInPlace: every operation run statement by statement on the heap,    *)
(* against the catalog of one of three map files.  map and input are what  *)
(* the heap holds when the operation returns.                              *)
(***************************************************************************)
InPlaceData ==
    {[basic |-> <<leaf0, Cpuid(1, {}, {}, {}, edx)>>,
      extended |-> <<Cpuid(CPUX86_EXTENDED, {}, {}, {}, {}),
                     Cpuid(CPUX86_EXTENDED + 1, {}, {}, {}, lm)>>] :
        leaf0 \in VendorLeaves, edx \in {{0}, {0, 26}}, lm \in {{}, {29}}}

InPlaceHosts ==
    {CPUDef("x86_64", "HOST", "EXACT", model, "Intel", <<>>) :
        model \in {"base", "core2", "x86_64", "nomodel"}}

InPlaceFeatures ==
    {<<>>, <<CPUFeature("lm", "FORCE")>>, <<CPUFeature("sse2", "DISABLE")>>,
     <<CPUFeature("lm", "OPTIONAL")>>, <<CPUFeature("lm", "FORBID")>>,
     <<CPUFeature("sse2", "REQUIRE"), CPUFeature("lm", "FORCE")>>,
     <<CPUFeature("nofeature", "REQUIRE")>>}

InPlaceGuests ==
    {CPUDef("x86_64", "GUEST", match, model, NULL, features) :
        match \in {"MINIMUM", "EXACT"}, model \in {"base", "core2", "nomodel"},
        features \in InPlaceFeatures}

InitInPlace ==
    /\ CompareIdle
    /\ xml \in {cpu_map, cpu_map_sse, cpu_map_amd}
    /\ map = cpuMapLoad(xml, 1, EmptyMap)
    /\ last = NoCallback
    /\ input \in InPlaceData
    /\ host \in InPlaceHosts
    /\ cpu \in InPlaceGuests
    /\ cpuArray = <<cpu, host>>
    /\ allowlist \in {NULL, <<"base", "core2">>}
    /\ wanted = NULL
    /\ options \in {{}, {"EXPAND_FEATURES"}}
    /\ pc = "start" /\ ret = "none" /\ message = "none" /\ guest = NoData

\* the operation returns, st being the heap it leaves
Returns(st, done) ==
    /\ pc = "start"
    /\ map' = st.map
    /\ input' = st.input
    /\ ret' = IF st.failed THEN -1 ELSE 0
    /\ guest' = IF st.ptr["guestData"] = Nil THEN guest ELSE st.local["guestData"]
    /\ pc' = done
    /\ UNCHANGED <<last, model1, model2, result, host, cpu, message, xml, allowlist,
                   wanted, options, cpuArray>>

\* x86Compare(host, cpu)
CompareInPlace == Returns(x86ComputeInPlace(Heap(map, input), host, cpu, FALSE), "compared")

\* x86GuestData(host, guest, data, message)
GuestDataInPlace ==
    Returns(x86ComputeInPlace(Heap(map, input), host, cpu, TRUE), "guestdata")

\* x86Decode(cpu, data, models, nmodels, preferred, flags)
DecodeInPlace ==
    \E preferred \in {NULL, "core2"} :
        Returns(x86DecodeInPlace(Heap(map, input), DecodeCPU(cpu.type, "ALLOW"),
                                 <<"input">>, allowlist, preferred, options),
                "decoded")

\* x86Encode(arch, cpu, forced, required, optional, disabled, forbidden, vendor)
EncodeInPlace ==
    Returns(x86EncodeInPlace(Heap(map, input), host,
                             {"forced", "required", "optional", "disabled", "forbidden",
                              "vendor"}),
            "encoded")

\* x86Baseline(cpus, ncpus, models, nmodels, flags)
BaselineInPlace ==
    Returns(x86BaselineInPlace(Heap(map, input), cpuArray, allowlist, options),
            "baselined")

\* x86Update(guest, host) with guest->mode CUSTOM
UpdateInPlace == Returns(x86UpdateCustomInPlace(Heap(map, input), cpu, host), "updated")

\* x86HasFeature(data, name)
HasFeatureInPlace ==
    \E name \in {"sse2", "nofeature"} :
        Returns(x86HasFeatureInPlace(Heap(map, input), name), "probed")

NextInPlace ==
    \/ CompareInPlace
    \/ GuestDataInPlace
    \/ DecodeInPlace
    \/ EncodeInPlace
    \/ BaselineInPlace
    \/ UpdateInPlace
    \/ HasFeatureInPlace

SpecInPlace == InitInPlace /\ [][NextInPlace]_vars

\* C22: no operation made after the load changes a catalog entry, the leaf
\* of a vendor, the data of a feature, the data or the vendor of a model:
\* the map an operation returns with is the map it was given, and x86Decode
\* leaves the data it was given as it was.
C22_CatalogUnchanged == [][map' = map /\ input' = input]_vars

\* x86Decode with VIR_CONNECT_BASELINE_CPU_EXPAND_FEATURES returned: the
\* copy it made of the data of the model it chose lost bits, and so did the
\* copy x86DataToCPU made of the data of the last candidate
C22_Witness ==
    /\ pc = "decoded"
    /\ "EXPAND_FEATURES" \in options
    /\ ret = 0
    /\ \E preferred \in {NULL, "core2"} :
          /\ x86DecodeInPlace(Heap(map, input), DecodeCPU(cpu.type, "ALLOW"), <<"input">>,
                              allowlist, preferred, options).local["copy"]
                 # map.models[x86ModelFind(map, "core2")].data
          /\ x86DecodeInPlace(Heap(map, input), DecodeCPU(cpu.type, "ALLOW"), <<"input">>,
                              allowlist, preferred, options).ptr["cpuData"]
                 = <<"model", x86ModelFind(map, "core2")>>
          /\ x86DecodeInPlace(Heap(map, input), DecodeCPU(cpu.type, "ALLOW"), <<"input">>,
                              allowlist, preferred, options).local["modelData"]
                 # map.models[Len(map.models)].data

=============================================================================
